---- MODULE Spec2Model ----
(***************************************************************************)
(* Featherflow: dependency-graph validation and ordering, the cron-like    *)
(* time matcher, the schedule store and the scheduler daemon.              *)
(*                                                                         *)
(* Time is a number of minutes since 2024-01-01 00:00 (a Monday).  Every   *)
(* timestamp the scheduler compares is either minute-aligned (next_run) or *)
(* compared with a minute-aligned one, so the seconds are dropped.         *)
(***************************************************************************)
EXTENDS Integers, Sequences, FiniteSets, TLC

\* Python's None; NoTime where a datetime is expected (last_run, next_run),
\* NoThread where a thread is
None == "None"
NoTime == -1
NoThread == 0

\* ------------------------------------------------------------------------
\* datetime fields of a timestamp (minutes since 2024-01-01 00:00, Monday)
\* ------------------------------------------------------------------------
EpochYear == 2024

IsLeap(y) == (y % 4 = 0) /\ ((y % 100 # 0) \/ (y % 400 = 0))

DaysInYear(y) == IF IsLeap(y) THEN 366 ELSE 365

DaysInMonth(y, m) ==
    IF m = 2 THEN (IF IsLeap(y) THEN 29 ELSE 28)
    ELSE IF m \in {4, 6, 9, 11} THEN 30 ELSE 31

\* <<year, day of the year (0-based)>> of the d-th day since 1 January of y
RECURSIVE YearOfDay(_, _)
YearOfDay(d, y) ==
    IF d < DaysInYear(y) THEN <<y, d>> ELSE YearOfDay(d - DaysInYear(y), y + 1)

\* <<month, day of the month>> of the doy-th day (0-based) of year y
RECURSIVE MonthOfDay(_, _, _)
MonthOfDay(y, doy, m) ==
    IF doy < DaysInMonth(y, m) THEN <<m, doy + 1>>
    ELSE MonthOfDay(y, doy - DaysInMonth(y, m), m + 1)

dt_minute(t) == t % 60
dt_hour(t) == (t \div 60) % 24
\* <<month, day of the month>> of each day of the years 2024 and 2025,
\* evaluated once
date_of_day ==
    [d \in 0..(DaysInYear(EpochYear) + DaysInYear(EpochYear + 1) - 1) |->
        LET yd == YearOfDay(d, EpochYear) IN MonthOfDay(yd[1], yd[2], 1)]

dt_date(t) == date_of_day[t \div 1440]
dt_month(t) == dt_date(t)[1]
dt_day(t) == dt_date(t)[2]
\* datetime.weekday(): Monday = 0 .. Sunday = 6
dt_weekday(t) == (t \div 1440) % 7

\* ------------------------------------------------------------------------
\* SimpleSchedule
\*
\* A cron expression is the record [text, parts]: `text` is the string when it
\* is one the code compares with ("@daily", ...), None otherwise; `parts` is
\* the result of expression.strip().split().  A part is one of
\*   <<"star">>            *
\*   <<"step", b, n>>      b/n   (b = "star" for "*", any other text else)
\*   <<"list", <<..>>>>    a,b,c
\*   <<"range", a, b>>     a-b
\*   <<"value", v>>        v
\* ------------------------------------------------------------------------
Presets ==
    [hourly   |-> <<<<"value", 0>>, <<"star">>, <<"star">>, <<"star">>, <<"star">>>>,
     daily    |-> <<<<"value", 0>>, <<"value", 0>>, <<"star">>, <<"star">>, <<"star">>>>,
     weekly   |-> <<<<"value", 0>>, <<"value", 0>>, <<"star">>, <<"star">>, <<"value", 0>>>>,
     monthly  |-> <<<<"value", 0>>, <<"value", 0>>, <<"value", 1>>, <<"star">>, <<"star">>>>,
     yearly   |-> <<<<"value", 0>>, <<"value", 0>>, <<"value", 1>>, <<"value", 1>>, <<"star">>>>]

\* a 5-part expression, and a named one (a single part that is no number)
Cron(parts) == [text |-> None, parts |-> parts]
Named(text) == [text |-> text, parts |-> <<<<"text">>>>]

ExpandPreset(expression) ==
    IF expression.text = "@hourly" THEN Presets.hourly
    ELSE IF expression.text = "@daily" THEN Presets.daily
    ELSE IF expression.text = "@weekly" THEN Presets.weekly
    ELSE IF expression.text = "@monthly" THEN Presets.monthly
    ELSE IF expression.text = "@yearly" \/ expression.text = "@annually" THEN Presets.yearly
    ELSE expression.parts

allowed_range(i) ==
    IF i = 1 THEN 0..59
    ELSE IF i = 2 THEN 0..23
    ELSE IF i = 3 THEN 1..31
    ELSE IF i = 4 THEN 1..12
    ELSE 0..6

SeqRange(s) == {s[k] : k \in 1..Len(s)}

\* part_raises without the test of the base of a step
part_raises_any_base(i, part) ==
    IF part[1] = "star" THEN FALSE
    ELSE IF part[1] = "step" THEN part[3] = 0
    ELSE part[1] \notin {"list", "range", "value"}

\* whether parsing one part raises (ValueError, or ZeroDivisionError for */0)
part_raises(i, part) ==
    IF part[1] = "star" THEN FALSE
    ELSE IF part[1] = "step" THEN part[2] # "star" \/ part[3] = 0
    ELSE part[1] \notin {"list", "range", "value"}

\* part_values with ranges that leave out their end
part_values_open_range(i, part) ==
    IF part[1] = "star" THEN allowed_range(i)
    ELSE IF part[1] = "step"
         THEN {v \in allowed_range(i) : v % (IF part[3] < 0 THEN -part[3] ELSE part[3]) = 0}
    ELSE IF part[1] = "list" THEN SeqRange(part[2])
    ELSE IF part[1] = "range" THEN part[2]..(part[3] - 1)
    ELSE {part[2]}

\* the values one part stands for
part_values(i, part) ==
    IF part[1] = "star" THEN allowed_range(i)
    ELSE IF part[1] = "step"
         THEN {v \in allowed_range(i) : v % (IF part[3] < 0 THEN -part[3] ELSE part[3]) = 0}
    ELSE IF part[1] = "list" THEN SeqRange(part[2])
    ELSE IF part[1] = "range" THEN part[2]..part[3]
    ELSE {part[2]}

\* SimpleSchedule(expression): ok = FALSE when the constructor raises,
\* else parts = self.parts
parse_expression(expression) ==
    LET parts == ExpandPreset(expression) IN
    IF Len(parts) # 5 \/ \E i \in 1..5 : part_raises(i, parts[i])
    THEN [ok |-> FALSE, parts |-> <<>>]
    ELSE [ok |-> TRUE, parts |-> [i \in 1..5 |-> part_values(i, parts[i])]]

\* ------------------------------------------------------------------------
\* The text of an expression
\*
\* Where the text matters, an expression is the tuple of its words (what
\* expression.strip().split() returns), a word being the tuple of its
\* characters.  read_expression turns the words into the parts above, as the
\* branches of _parse_expression do: a part whose split or int() raises
\* becomes <<"text">>.
\* ------------------------------------------------------------------------
DigitChars == <<"0", "1", "2", "3", "4", "5", "6", "7", "8", "9">>

IsDigit(c) == \E k \in 1..10 : DigitChars[k] = c

DigitValue(c) == (CHOOSE k \in 1..10 : DigitChars[k] = c) - 1

Contains(word, c) == \E k \in 1..Len(word) : word[k] = c

\* str.split(c): the pieces between the occurrences of c
RECURSIVE split(_, _)
split(word, c) ==
    IF ~Contains(word, c) THEN <<word>>
    ELSE LET k == CHOOSE j \in 1..Len(word) :
                      word[j] = c /\ \A h \in 1..(j - 1) : word[h] # c
         IN  <<SubSeq(word, 1, k - 1)>> \o split(SubSeq(word, k + 1, Len(word)), c)

\* int(word): digits, with a sign before them or not
unsigned(word) == IF word # <<>> /\ word[1] = "-" THEN Tail(word) ELSE word

int_raises(word) ==
    unsigned(word) = <<>> \/ \E k \in 1..Len(unsigned(word)) : ~IsDigit(unsigned(word)[k])

RECURSIVE digits_value(_)
digits_value(word) ==
    IF word = <<>> THEN 0
    ELSE 10 * digits_value(SubSeq(word, 1, Len(word) - 1)) + DigitValue(word[Len(word)])

int(word) ==
    IF word[1] = "-" THEN -digits_value(unsigned(word)) ELSE digits_value(word)

\* one word of the expression, by the branches of the parser
read_part(word) ==
    IF word = <<"*">> THEN <<"star">>
    ELSE IF Contains(word, "/") THEN
        LET pieces == split(word, "/") IN
        IF Len(pieces) # 2 THEN <<"text">>
        ELSE IF pieces[1] # <<"*">>
             THEN <<"step", "value", IF int_raises(pieces[2]) THEN 0 ELSE int(pieces[2])>>
        ELSE IF int_raises(pieces[2]) THEN <<"text">>
        ELSE <<"step", "star", int(pieces[2])>>
    ELSE IF Contains(word, ",") THEN
        LET pieces == split(word, ",") IN
        IF \E k \in 1..Len(pieces) : int_raises(pieces[k]) THEN <<"text">>
        ELSE <<"list", [k \in 1..Len(pieces) |-> int(pieces[k])]>>
    ELSE IF Contains(word, "-") THEN
        LET pieces == split(word, "-") IN
        IF Len(pieces) # 2 THEN <<"text">>
        ELSE IF int_raises(pieces[1]) \/ int_raises(pieces[2]) THEN <<"text">>
        ELSE <<"range", int(pieces[1]), int(pieces[2])>>
    ELSE IF int_raises(word) THEN <<"text">>
    ELSE <<"value", int(word)>>

\* the names the parser compares the whole expression with
PresetNames ==
    [hourly   |-> <<"@", "h", "o", "u", "r", "l", "y">>,
     daily    |-> <<"@", "d", "a", "i", "l", "y">>,
     weekly   |-> <<"@", "w", "e", "e", "k", "l", "y">>,
     monthly  |-> <<"@", "m", "o", "n", "t", "h", "l", "y">>,
     yearly   |-> <<"@", "y", "e", "a", "r", "l", "y">>,
     annually |-> <<"@", "a", "n", "n", "u", "a", "l", "l", "y">>]

read_expression(words) ==
    IF words = <<PresetNames.hourly>> THEN Named("@hourly")
    ELSE IF words = <<PresetNames.daily>> THEN Named("@daily")
    ELSE IF words = <<PresetNames.weekly>> THEN Named("@weekly")
    ELSE IF words = <<PresetNames.monthly>> THEN Named("@monthly")
    ELSE IF words = <<PresetNames.yearly>> THEN Named("@yearly")
    ELSE IF words = <<PresetNames.annually>> THEN Named("@annually")
    ELSE Cron([i \in 1..Len(words) |-> read_part(words[i])])

\* matches without the adjustment of the weekday
matches_python_weekday(parts, t) ==
    /\ dt_minute(t) \in parts[1]
    /\ dt_hour(t) \in parts[2]
    /\ dt_day(t) \in parts[3]
    /\ dt_month(t) \in parts[4]
    /\ dt_weekday(t) \in parts[5]

matches(parts, t) ==
    /\ dt_minute(t) \in parts[1]
    /\ dt_hour(t) \in parts[2]
    /\ dt_day(t) \in parts[3]
    /\ dt_month(t) \in parts[4]
    /\ ((dt_weekday(t) + 1) % 7) \in parts[5]

\* one candidate more than the code tests
max_iterations_and_one == 24 * 60 * 31 + 1

max_iterations == 24 * 60 * 31

\* no minute: get_next_occurrence raised ValueError
NotFound == -2

\* get_next_occurrence whose first candidate is the minute of `after` itself
get_next_occurrence_from_after(parts, after) ==
    LET first == after
        last == after + max_iterations - 1
    IN  IF \E c \in first..last : matches(parts, c)
        THEN CHOOSE c \in first..last :
                 matches(parts, c) /\ \A d \in first..(c - 1) : ~matches(parts, d)
        ELSE NotFound

\* The first of the max_iterations minutes after `after` that matches, or
\* NotFound when the loop runs out (the code raises ValueError).
get_next_occurrence(parts, after) ==
    LET first == after + 1
        last == after + max_iterations
    IN  IF \E c \in first..last : matches(parts, c)
        THEN CHOOSE c \in first..last :
                 matches(parts, c) /\ \A d \in first..(c - 1) : ~matches(parts, d)
        ELSE NotFound

\* ------------------------------------------------------------------------
\* Bounds of the daemon model
\* ------------------------------------------------------------------------
\* ScheduleEntry objects constructed, execution threads started, minutes the
\* clock advances
MaxEntries == 2
MaxThreads == 2
MaxTime == 2

\* 2024-01-30 23:59: the next minute is the 31st, 00:00
StartTime == 29 * 1440 + 1439

Flows == {"f1"}

\* the expressions add_schedule is called with: every minute; 00:00 on the
\* 31st of a month (none within 31 days once the 31st of January has begun)
EveryMinute == Cron(<<<<"star">>, <<"star">>, <<"star">>, <<"star">>, <<"star">>>>)
On31st == Cron(<<<<"value", 0>>, <<"value", 0>>, <<"value", 31>>, <<"star">>, <<"star">>>>)
Expressions == {EveryMinute, On31st}

\* the store alone is called with two flows, with the default options or
\* disabled with a description,
\* with a named expression and with expressions that do not parse: four
\* parts, a step on a number (5/10), a part that is no number
StoreFlows == {"f1", "f2"}
Options == {[enabled |-> TRUE, description |-> None],
            [enabled |-> FALSE, description |-> "nightly"]}
Daily == Named("@daily")
FourParts == Cron(<<<<"star">>, <<"star">>, <<"star">>, <<"star">>>>)
StepOnValue == Cron(<<<<"step", "value", 10>>, <<"star">>, <<"star">>, <<"star">>, <<"star">>>>)
NotANumber == Cron(<<<<"text">>, <<"star">>, <<"star">>, <<"star">>, <<"star">>>>)
StoreExpressions == {On31st, Daily, FourParts, StepOnValue, NotANumber}

\* SimpleSchedule(x) of the expressions the daemon and the store are called
\* with, evaluated once
Parsed == [x \in Expressions \cup StoreExpressions |-> parse_expression(x)]

\* get_next_occurrence of the daemon's schedules at the daemon's clock values,
\* evaluated once
NextOccurrence ==
    [x \in {y \in DOMAIN Parsed : Parsed[y].ok}, t \in StartTime..(StartTime + MaxTime) |->
        get_next_occurrence(Parsed[x].parts, t)]

VARIABLES
    now,            \* datetime.datetime.now(), in minutes
    heap,           \* the ScheduleEntry objects constructed so far
    schedules,      \* ScheduleManager.schedules: <<[flow_name, entry]>> in dict order
    schedule_file,  \* schedules.json: whether it exists, and the list under "schedules"
    loop_pc,        \* where the control loop (_scheduler_loop) is
    due,            \* due_schedules still to dispatch in this tick
    threads,        \* the execution threads started so far (_execute_flow)
    running_flows,  \* Scheduler.running_flows: flow name -> thread, NoThread without key
    tasks,          \* flow_def["tasks"] of the flow document being planned
    call,           \* the planning function called last
    result,         \* what that call returned or raised
    locals,         \* visited, temp_visited, order of the last get_task_execution_order
    plans,          \* the number of get_task_execution_order calls so far
    first_plan,     \* the tasks and the result of the first of them
    flow_def,       \* the flow document: whether it has "name", what "tasks" is, and
                    \* whether each task has "id" and "script"
    store_call,     \* the ScheduleManager method called last, and what it returned
    expression_arg,   \* the string SimpleSchedule is constructed from
    simple_schedule,  \* the SimpleSchedule object, once constructed
    dt_arg,           \* the datetime given to matches
    second_arg,     \* the seconds of the datetime passed to it
    returned,       \* what the last call of the object returned
    should_stop,    \* Scheduler.should_stop: whether the event is set
    scheduler_thread,  \* Scheduler.scheduler_thread: the control threads are numbered, NoThread for None
    start_time,     \* Scheduler._start_time
    caller,         \* the thread that calls start() and stop(): the call, where it is, what it
                    \* returned, and (history) the executions under way when stop() was called
    runs,           \* the runs of generated scripts: the flow, where the shell is, and
                    \* (history) the commands it started and their exit statuses
    temp_dir        \* "$PWD/tmp": whether the directory exists, and its <id>.status files

daemonVars == <<now, heap, schedules, schedule_file, loop_pc, due, threads, running_flows>>
planVars == <<tasks, call, result, locals, plans, first_plan, flow_def>>
storeVars == <<store_call>>
cronVars == <<expression_arg, simple_schedule, dt_arg, second_arg, returned>>
lifeVars == <<should_stop, scheduler_thread, start_time, caller>>
scriptVars == <<runs, temp_dir>>

\* ------------------------------------------------------------------------
\* ScheduleEntry
\* ------------------------------------------------------------------------
\* base_time of _calculate_next_run
base_time(e) ==
    IF e.last_run # NoTime /\ e.last_run > now THEN e.last_run ELSE now

\* ScheduleEntry.__init__: the object, its next_run computed.  self.schedule,
\* the SimpleSchedule of cron_expression, is Parsed[cron_expression].  The fields
\* phase and ended are history: phase is "new", "marked" from mark_running on
\* and "completed" once a mark_completed has computed next_run; ended is the
\* time the entry's last execution ended.
NewEntry(flow_name, cron_expression, enabled, description) ==
    [flow_name |-> flow_name, cron_expression |-> cron_expression,
     enabled |-> enabled, description |-> description,
     last_run |-> NoTime, running |-> FALSE,
     next_run |-> NextOccurrence[cron_expression, now],
     phase |-> "new", ended |-> NoTime]

\* whether ScheduleEntry(...) raises
NewEntryRaises(cron_expression) ==
    IF ~Parsed[cron_expression].ok THEN TRUE
    ELSE NextOccurrence[cron_expression, now] = NotFound

\* should_run without the test of self.running
should_run_while_running(e) ==
    IF ~e.enabled THEN FALSE
    ELSE e.next_run <= now

should_run(e) ==
    IF ~e.enabled THEN FALSE
    ELSE IF e.running THEN FALSE
    ELSE e.next_run <= now

mark_running(e) ==
    [e EXCEPT !.running = TRUE, !.last_run = now, !.phase = "marked"]

\* mark_completed is two steps: self.running = False, then
\* self._calculate_next_run(), which raises when no minute is found.
mark_completed_flag(e) == [e EXCEPT !.running = FALSE]

calculate_next_run_raises(e) == NextOccurrence[e.cron_expression, base_time(e)] = NotFound

calculate_next_run(e) ==
    [e EXCEPT !.next_run = NextOccurrence[e.cron_expression, base_time(e)],
              !.phase = "completed"]

to_dict(e) ==
    [flow_name |-> e.flow_name, cron_expression |-> e.cron_expression,
     enabled |-> e.enabled, description |-> e.description,
     last_run |-> e.last_run, next_run |-> e.next_run]

\* whether from_dict raises: the constructor does
from_dict_raises(data) == NewEntryRaises(data.cron_expression)

\* from_dict: the constructor computes next_run from the present time, then
\* last_run and next_run are taken from the document when it has them
from_dict(data) ==
    LET e == NewEntry(data.flow_name, data.cron_expression, data.enabled, data.description) IN
    [e EXCEPT !.last_run = IF data.last_run # NoTime THEN data.last_run ELSE @,
              !.next_run = IF data.next_run # NoTime THEN data.next_run ELSE @]

\* ------------------------------------------------------------------------
\* ScheduleManager
\* ------------------------------------------------------------------------
HasKey(d, k) == \E i \in 1..Len(d) : d[i].flow_name = k

\* a dict that took every assignment as a new key
DictAppend(d, k, v) == Append(d, [flow_name |-> k, entry |-> v])

\* d[k] = v of a dict: a key keeps its place, a new key goes last
DictSet(d, k, v) ==
    IF HasKey(d, k)
    THEN [i \in 1..Len(d) |-> IF d[i].flow_name = k THEN [flow_name |-> k, entry |-> v] ELSE d[i]]
    ELSE Append(d, [flow_name |-> k, entry |-> v])

\* del d[k]
DictDel(d, k) == SelectSeq(d, LAMBDA x : x.flow_name # k)

\* An object that the dict d, the list of due entries and the threads no
\* longer refer to is freed: nothing reads it again.
Freed ==
    [flow_name |-> None, cron_expression |-> Cron(<<>>),
     enabled |-> FALSE, description |-> None,
     last_run |-> NoTime, running |-> FALSE,
     next_run |-> NoTime, phase |-> "freed", ended |-> NoTime]

referenced(d) ==
    {d[i].entry : i \in 1..Len(d)} \cup SeqRange(due)
        \cup {threads[t].schedule : t \in 1..Len(threads)}

collect(h, d) == [i \in 1..Len(h) |-> IF i \in referenced(d) THEN h[i] ELSE Freed]

save_schedules(d, h) ==
    [exists |-> TRUE, schedules |-> [i \in 1..Len(d) |-> to_dict(h[d[i].entry])]]

\* get_schedule: the entry (object) of a flow, NoEntry for None
NoEntry == 0

get_schedule(flow_name) ==
    IF HasKey(schedules, flow_name)
    THEN (CHOOSE x \in SeqRange(schedules) : x.flow_name = flow_name).entry
    ELSE NoEntry

\* get_all_schedules: the entries (objects) in dict order
get_all_schedules == [i \in 1..Len(schedules) |-> schedules[i].entry]

\* the record of a ScheduleManager call: the method, whether the flow had an
\* entry when it was called, and its return value
Called(op, existed, ret) == [op |-> op, existed |-> existed, ret |-> ret]

\* the entries (objects) that should run, in dict order
get_due_schedules ==
    LET due_items == SelectSeq(schedules, LAMBDA x : should_run(heap[x.entry]))
    IN  [i \in 1..Len(due_items) |-> due_items[i].entry]

\* an add_schedule that returns False after it has dropped the flow's entry
AddScheduleFailsDropping(flow_name, cron_expression) ==
    /\ NewEntryRaises(cron_expression)
    /\ schedules' = DictDel(schedules, flow_name)
    /\ schedule_file' = save_schedules(schedules', heap)
    /\ store_call' = Called("add_schedule", HasKey(schedules, flow_name), FALSE)
    /\ UNCHANGED <<now, heap, loop_pc, due, threads, running_flows>>
    /\ UNCHANGED <<planVars, cronVars, lifeVars, scriptVars>>

\* add_schedule that returns False: the expression does not parse, or no
\* next run is found for it
AddScheduleFails(flow_name, cron_expression) ==
    /\ NewEntryRaises(cron_expression)
    /\ store_call' = Called("add_schedule", HasKey(schedules, flow_name), FALSE)
    /\ UNCHANGED daemonVars
    /\ UNCHANGED <<planVars, cronVars, lifeVars, scriptVars>>

AddSchedule(flow_name, cron_expression, enabled, description) ==
    /\ Len(heap) < MaxEntries
    /\ ~NewEntryRaises(cron_expression)
    /\ schedules' = DictSet(schedules, flow_name, Len(heap) + 1)
    /\ heap' = collect(Append(heap, NewEntry(flow_name, cron_expression, enabled, description)),
                       schedules')
    /\ schedule_file' = save_schedules(schedules', heap')
    /\ store_call' = Called("add_schedule", HasKey(schedules, flow_name), TRUE)
    /\ UNCHANGED <<now, loop_pc, due, threads, running_flows>>
    /\ UNCHANGED <<planVars, cronVars, lifeVars, scriptVars>>

RemoveSchedule(flow_name) ==
    /\ HasKey(schedules, flow_name)
    /\ schedules' = DictDel(schedules, flow_name)
    /\ heap' = collect(heap, schedules')
    /\ schedule_file' = save_schedules(schedules', heap')
    /\ store_call' = Called("remove_schedule", TRUE, TRUE)
    /\ UNCHANGED <<now, loop_pc, due, threads, running_flows>>
    /\ UNCHANGED <<planVars, cronVars, lifeVars, scriptVars>>

\* remove_schedule of a flow without entry: returns False, nothing is saved
RemoveScheduleMissing(flow_name) ==
    /\ ~HasKey(schedules, flow_name)
    /\ store_call' = Called("remove_schedule", FALSE, FALSE)
    /\ UNCHANGED daemonVars
    /\ UNCHANGED <<planVars, cronVars, lifeVars, scriptVars>>

\* the loop of _load_schedules over the records of the document, from the
\* objects h and the dict d: the first record that raises ends the loop
RECURSIVE load_schedules(_, _, _)
load_schedules(records, h, d) ==
    IF records = <<>> THEN [heap |-> h, schedules |-> d]
    ELSE IF from_dict_raises(Head(records)) THEN [heap |-> h, schedules |-> d]
    ELSE load_schedules(Tail(records), Append(h, from_dict(Head(records))),
                        DictSet(d, Head(records).flow_name, Len(h) + 1))

\* ScheduleManager(config_dir): a new store is constructed from the document
\* in a new process, where the objects of the earlier one are gone
LoadSchedules ==
    /\ LET loaded == load_schedules(schedule_file.schedules, <<>>, <<>>) IN
       /\ heap' = loaded.heap
       /\ schedules' = loaded.schedules
    /\ store_call' = Called("load", FALSE, TRUE)
    /\ UNCHANGED <<now, schedule_file, loop_pc, due, threads, running_flows>>
    /\ UNCHANGED <<planVars, cronVars, lifeVars, scriptVars>>

\* mark_running() of the entry of a flow that is not running
MarkRunning(flow_name) ==
    /\ HasKey(schedules, flow_name)
    /\ ~heap[get_schedule(flow_name)].running
    /\ heap' = [heap EXCEPT ![get_schedule(flow_name)] = mark_running(@)]
    /\ UNCHANGED <<now, schedules, schedule_file, loop_pc, due, threads, running_flows>>
    /\ UNCHANGED <<planVars, storeVars, cronVars, lifeVars, scriptVars>>

\* mark_completed() of the entry of a running flow, both steps; when the
\* second raises, next_run stays
MarkCompleted(flow_name) ==
    /\ HasKey(schedules, flow_name)
    /\ heap[get_schedule(flow_name)].running
    /\ LET e == mark_completed_flag(heap[get_schedule(flow_name)]) IN
       heap' = [heap EXCEPT ![get_schedule(flow_name)] =
                   IF calculate_next_run_raises(e) THEN e ELSE calculate_next_run(e)]
    /\ UNCHANGED <<now, schedules, schedule_file, loop_pc, due, threads, running_flows>>
    /\ UNCHANGED <<planVars, storeVars, cronVars, lifeVars, scriptVars>>

\* ------------------------------------------------------------------------
\* Scheduler: the control loop
\* ------------------------------------------------------------------------
\* loop_pc is the place of the control thread scheduler_thread refers to:
\*   "test"      at `while not self.should_stop.is_set()`
\*   "tick"      inside the try, before get_due_schedules()
\*   "run_flow"  in the for loop, before run_flow of Head(due)
\*   "register"  in run_flow, after flow_thread.start()
\*   "wait"      in self.should_stop.wait(self.check_interval)
\*   "sleep"     in time.sleep(5) of the exception handler
\*   "exited"    the thread has ended; "none" before the first start()
is_alive == loop_pc \notin {"none", "exited"}

\* a while condition that does not look at the event
LoopTestIgnoringStop ==
    /\ loop_pc = "test"
    /\ loop_pc' = "tick"
    /\ UNCHANGED <<now, heap, schedules, schedule_file, due, threads, running_flows>>
    /\ UNCHANGED <<planVars, storeVars, cronVars, lifeVars, scriptVars>>

\* the while condition: the loop goes on, or ends ("Scheduler loop stopped")
LoopTest ==
    /\ loop_pc = "test"
    /\ loop_pc' = IF should_stop THEN "exited" ELSE "tick"
    /\ UNCHANGED <<now, heap, schedules, schedule_file, due, threads, running_flows>>
    /\ UNCHANGED <<planVars, storeVars, cronVars, lifeVars, scriptVars>>

\* should_stop.wait(check_interval) returns: the event is set, or the
\* interval has passed
WaitReturns ==
    /\ loop_pc = "wait"
    /\ loop_pc' = "test"
    /\ UNCHANGED <<now, heap, schedules, schedule_file, due, threads, running_flows>>
    /\ UNCHANGED <<planVars, storeVars, cronVars, lifeVars, scriptVars>>

\* time.sleep(5) of the exception handler returns
SleepReturns ==
    /\ loop_pc = "sleep"
    /\ loop_pc' = "test"
    /\ UNCHANGED <<now, heap, schedules, schedule_file, due, threads, running_flows>>
    /\ UNCHANGED <<planVars, storeVars, cronVars, lifeVars, scriptVars>>

\* one pass of the while loop up to the for loop: due_schedules is computed
LoopTick ==
    /\ loop_pc = "tick"
    /\ due' = get_due_schedules
    /\ loop_pc' = IF due' = <<>> THEN "wait" ELSE "run_flow"
    /\ UNCHANGED <<now, heap, schedules, schedule_file, threads, running_flows>>
    /\ UNCHANGED <<planVars, storeVars, cronVars, lifeVars, scriptVars>>

\* run_flow that joins the executions in progress before it starts a thread
RunFlowStartJoins ==
    /\ loop_pc = "run_flow"
    /\ Len(threads) < MaxThreads
    /\ \A t \in 1..Len(threads) : threads[t].pc # "exec"
    /\ heap' = [heap EXCEPT ![Head(due)] = mark_running(@)]
    /\ threads' = Append(threads, [flow_name |-> heap[Head(due)].flow_name,
                                   schedule |-> Head(due), pc |-> "exec"])
    /\ loop_pc' = "register"
    /\ UNCHANGED <<now, schedules, schedule_file, due, running_flows>>
    /\ UNCHANGED <<planVars, storeVars, cronVars, lifeVars, scriptVars>>

\* run_flow up to flow_thread.start(): schedule.mark_running(), then the
\* thread is started
RunFlowStart ==
    /\ loop_pc = "run_flow"
    /\ Len(threads) < MaxThreads
    /\ heap' = [heap EXCEPT ![Head(due)] = mark_running(@)]
    /\ threads' = Append(threads, [flow_name |-> heap[Head(due)].flow_name,
                                   schedule |-> Head(due), pc |-> "exec"])
    /\ loop_pc' = "register"
    /\ UNCHANGED <<now, schedules, schedule_file, due, running_flows>>
    /\ UNCHANGED <<planVars, storeVars, cronVars, lifeVars, scriptVars>>

\* run_flow: self.running_flows[flow_name] = {...}; return True
RunFlowRegister ==
    /\ loop_pc = "register"
    /\ running_flows' = [running_flows EXCEPT ![heap[Head(due)].flow_name] = Len(threads)]
    /\ due' = Tail(due)
    /\ loop_pc' = IF due' = <<>> THEN "wait" ELSE "run_flow"
    /\ UNCHANGED <<now, heap, schedules, schedule_file, threads>>
    /\ UNCHANGED <<planVars, storeVars, cronVars, lifeVars, scriptVars>>

\* run_flow whose exception ends the control thread
RunFlowRaisesEndsLoop ==
    /\ loop_pc = "run_flow"
    /\ Len(threads) = MaxThreads
    /\ LET e == mark_completed_flag(mark_running(heap[Head(due)])) IN
       IF calculate_next_run_raises(e)
       THEN /\ heap' = [heap EXCEPT ![Head(due)] = e]
            /\ due' = <<>>
            /\ loop_pc' = "exited"
       ELSE /\ heap' = [heap EXCEPT ![Head(due)] = calculate_next_run(e)]
            /\ due' = Tail(due)
            /\ loop_pc' = IF due' = <<>> THEN "wait" ELSE "run_flow"
    /\ UNCHANGED <<now, schedules, schedule_file, threads, running_flows>>
    /\ UNCHANGED <<planVars, storeVars, cronVars, lifeVars, scriptVars>>

\* run_flow when no further thread can be started: flow_thread.start() raises
\* after schedule.mark_running(); the handler calls schedule.mark_completed()
\* and returns False.  When that call raises in turn, the exception ends the
\* tick: the loop's handler logs it and sleeps.
RunFlowRaises ==
    /\ loop_pc = "run_flow"
    /\ Len(threads) = MaxThreads
    /\ LET e == mark_completed_flag(mark_running(heap[Head(due)])) IN
       IF calculate_next_run_raises(e)
       THEN /\ heap' = [heap EXCEPT ![Head(due)] = e]
            /\ due' = <<>>
            /\ loop_pc' = "sleep"
       ELSE /\ heap' = [heap EXCEPT ![Head(due)] = calculate_next_run(e)]
            /\ due' = Tail(due)
            /\ loop_pc' = IF due' = <<>> THEN "wait" ELSE "run_flow"
    /\ UNCHANGED <<now, schedules, schedule_file, threads, running_flows>>
    /\ UNCHANGED <<planVars, storeVars, cronVars, lifeVars, scriptVars>>

\* ------------------------------------------------------------------------
\* Scheduler: an execution thread (_execute_flow)
\* ------------------------------------------------------------------------
\* execute_flow returns or raises; the finally block tests
\* `flow_name in self.running_flows`
ExecuteFlowEnds(t) ==
    /\ threads[t].pc = "exec"
    /\ threads' = [threads EXCEPT ![t].pc =
           IF running_flows[threads[t].flow_name] # NoThread THEN "del" ELSE "mark_completed"]
    /\ heap' = [heap EXCEPT ![threads[t].schedule].ended = now]
    /\ UNCHANGED <<now, schedules, schedule_file, loop_pc, due, running_flows>>
    /\ UNCHANGED <<planVars, storeVars, cronVars, lifeVars, scriptVars>>

\* del self.running_flows[flow_name]: KeyError when the key is gone, which
\* ends the thread inside the finally block
DelRunningFlow(t) ==
    /\ threads[t].pc = "del"
    /\ IF running_flows[threads[t].flow_name] # NoThread
       THEN /\ running_flows' = [running_flows EXCEPT ![threads[t].flow_name] = NoThread]
            /\ threads' = [threads EXCEPT ![t].pc = "mark_completed"]
       ELSE /\ threads' = [threads EXCEPT ![t].pc = "KeyError"]
            /\ UNCHANGED running_flows
    /\ UNCHANGED <<now, heap, schedules, schedule_file, loop_pc, due>>
    /\ UNCHANGED <<planVars, storeVars, cronVars, lifeVars, scriptVars>>

\* schedule.mark_completed(): self.running = False
MarkCompletedFlag(t) ==
    /\ threads[t].pc = "mark_completed"
    /\ heap' = [heap EXCEPT ![threads[t].schedule] = mark_completed_flag(@)]
    /\ threads' = [threads EXCEPT ![t].pc = "next_run"]
    /\ UNCHANGED <<now, schedules, schedule_file, loop_pc, due, running_flows>>
    /\ UNCHANGED <<planVars, storeVars, cronVars, lifeVars, scriptVars>>

\* schedule.mark_completed(): self._calculate_next_run()
MarkCompletedNextRun(t) ==
    /\ threads[t].pc = "next_run"
    /\ LET e == heap[threads[t].schedule] IN
       IF calculate_next_run_raises(e)
       THEN /\ threads' = [threads EXCEPT ![t].pc = "ValueError"]
            /\ UNCHANGED heap
       ELSE /\ threads' = [threads EXCEPT ![t].pc = "done"]
            /\ heap' = [heap EXCEPT ![threads[t].schedule] = calculate_next_run(e)]
    /\ UNCHANGED <<now, schedules, schedule_file, loop_pc, due, running_flows>>
    /\ UNCHANGED <<planVars, storeVars, cronVars, lifeVars, scriptVars>>

\* ------------------------------------------------------------------------
\* Scheduler: start(), stop(), is_running(), called by one thread
\* ------------------------------------------------------------------------
\* control threads started by one Scheduler
MaxStarts == 2

\* no call of start() or stop() under way
Idle == [op |-> "none", pc |-> "idle", ret |-> FALSE, in_flight |-> {}]

Returned(op, ret) == [op |-> op, pc |-> "idle", ret |-> ret, in_flight |-> {}]

\* the execution threads that have not ended
in_flight == {t \in 1..Len(threads) : threads[t].pc \notin {"done", "KeyError", "ValueError"}}

is_running == scheduler_thread # NoThread /\ is_alive

\* start() that launches a loop although one is alive
StartUnguarded ==
    /\ caller.pc = "idle"
    /\ scheduler_thread < MaxStarts
    /\ start_time' = now
    /\ should_stop' = FALSE
    /\ scheduler_thread' = scheduler_thread + 1
    /\ loop_pc' = "test"
    /\ caller' = Returned("start", TRUE)
    /\ UNCHANGED <<now, heap, schedules, schedule_file, due, threads, running_flows>>
    /\ UNCHANGED <<planVars, storeVars, cronVars, scriptVars>>

\* start() while the control thread is alive: "already running", False
StartRejected ==
    /\ caller.pc = "idle"
    /\ scheduler_thread # NoThread /\ is_alive
    /\ caller' = Returned("start", FALSE)
    /\ UNCHANGED <<should_stop, scheduler_thread, start_time>>
    /\ UNCHANGED <<daemonVars, planVars, storeVars, cronVars, scriptVars>>

\* start() otherwise: the start time is recorded, the event cleared, a new
\* control thread started; True
Start ==
    /\ caller.pc = "idle"
    /\ ~(scheduler_thread # NoThread /\ is_alive)
    /\ scheduler_thread < MaxStarts
    /\ start_time' = now
    /\ should_stop' = FALSE
    /\ scheduler_thread' = scheduler_thread + 1
    /\ loop_pc' = "test"
    /\ caller' = Returned("start", TRUE)
    /\ UNCHANGED <<now, heap, schedules, schedule_file, due, threads, running_flows>>
    /\ UNCHANGED <<planVars, storeVars, cronVars, scriptVars>>

\* stop() while no control thread is alive: "not running", False
StopRejected ==
    /\ caller.pc = "idle"
    /\ ~(scheduler_thread # NoThread /\ is_alive)
    /\ caller' = Returned("stop", FALSE)
    /\ UNCHANGED <<should_stop, scheduler_thread, start_time>>
    /\ UNCHANGED <<daemonVars, planVars, storeVars, cronVars, scriptVars>>

\* stop() up to the join: the event is set
StopSet ==
    /\ caller.pc = "idle"
    /\ scheduler_thread # NoThread /\ is_alive
    /\ should_stop' = TRUE
    /\ caller' = [op |-> "stop", pc |-> "join", ret |-> FALSE, in_flight |-> in_flight]
    /\ UNCHANGED <<scheduler_thread, start_time>>
    /\ UNCHANGED <<daemonVars, planVars, storeVars, cronVars, scriptVars>>

\* join(timeout=30) returns after 30 seconds and the thread is alive: False
JoinTimesOut ==
    /\ caller.pc = "join"
    /\ is_alive
    /\ caller' = [caller EXCEPT !.pc = "idle", !.ret = FALSE]
    /\ UNCHANGED <<should_stop, scheduler_thread, start_time>>
    /\ UNCHANGED <<daemonVars, planVars, storeVars, cronVars, scriptVars>>

\* join returns and the thread has ended: True
JoinReturns ==
    /\ caller.pc = "join"
    /\ ~is_alive
    /\ caller' = [caller EXCEPT !.pc = "idle", !.ret = TRUE]
    /\ UNCHANGED <<should_stop, scheduler_thread, start_time>>
    /\ UNCHANGED <<daemonVars, planVars, storeVars, cronVars, scriptVars>>

\* a minute passes
ClockTick ==
    /\ now < StartTime + MaxTime
    /\ now' = now + 1
    /\ UNCHANGED <<heap, schedules, schedule_file, loop_pc, due, threads, running_flows>>
    /\ UNCHANGED <<planVars, storeVars, cronVars, lifeVars, scriptVars>>

vars == <<daemonVars, planVars, storeVars, cronVars, lifeVars, scriptVars>>

\* The daemon after start(): an empty store, no schedule file, the control
\* loop about to run its first tick.
DaemonStarted ==
    /\ now = StartTime
    /\ heap = <<>>
    /\ schedules = <<>>
    /\ schedule_file = [exists |-> FALSE, schedules |-> <<>>]
    /\ loop_pc = "test"
    /\ due = <<>>
    /\ threads = <<>>
    /\ running_flows = [f \in Flows |-> NoThread]
    /\ store_call = Called("none", FALSE, FALSE)
    /\ should_stop = FALSE
    /\ scheduler_thread = 1
    /\ start_time = StartTime
    /\ caller = Idle

\* no planning function called yet on the flow document ts
\* a document that has a name, the tasks ts under "tasks", and an id and a
\* script in every task
Complete(ts) ==
    [has_name |-> TRUE, tasks_type |-> "list",
     fields |-> [k \in 1..Len(ts) |-> [has_id |-> TRUE, has_script |-> TRUE]]]

NotPlanned(ts) ==
    /\ tasks = ts
    /\ flow_def = Complete(ts)
    /\ call = "none"
    /\ result = [ok |-> TRUE, order |-> <<>>, kind |-> "none", names |-> <<>>]
    /\ locals = [visited |-> {}, temp_visited |-> {}, order |-> <<>>,
                 raised |-> "none", names |-> <<>>]
    /\ plans = 0
    /\ first_plan = [tasks |-> <<>>, result |-> result]

\* no SimpleSchedule under test
NoSchedule ==
    /\ expression_arg = <<>>
    /\ simple_schedule = [built |-> FALSE, ok |-> FALSE, parts |-> <<>>]
    /\ dt_arg = StartTime
    /\ second_arg = 0
    /\ returned = [call |-> "none", matched |-> FALSE, next |-> NoTime, second |-> 0]

\* "$PWD/tmp" does not exist
NoDir == [exists |-> FALSE, status |-> [id \in {<<"a">>, <<"b">>, <<"a", "b">>} |-> "none"]]

\* no generated script has been run
NoScript ==
    /\ runs = <<>>
    /\ temp_dir = NoDir

Init == DaemonStarted /\ NotPlanned(<<>>) /\ NoSchedule /\ NoScript

Next ==
    \/ \E f \in Flows, x \in Expressions : AddScheduleFails(f, x)
    \/ \E f \in Flows, x \in Expressions, en \in BOOLEAN : AddSchedule(f, x, en, None)
    \/ \E f \in Flows : RemoveSchedule(f)
    \/ \E f \in Flows : RemoveScheduleMissing(f)
    \/ LoopTest
    \/ WaitReturns
    \/ SleepReturns
    \/ LoopTick
    \/ RunFlowStart
    \/ RunFlowRegister
    \/ RunFlowRaises
    \/ \E t \in 1..Len(threads) : ExecuteFlowEnds(t)
    \/ \E t \in 1..Len(threads) : DelRunningFlow(t)
    \/ \E t \in 1..Len(threads) : MarkCompletedFlag(t)
    \/ \E t \in 1..Len(threads) : MarkCompletedNextRun(t)
    \/ ClockTick

Spec == Init /\ [][Next]_vars

\* The store alone, used by one thread: its methods, the methods of its
\* entries, and the clock.
NextStore ==
    \/ \E f \in StoreFlows, x \in StoreExpressions : AddScheduleFails(f, x)
    \/ \E f \in StoreFlows, x \in StoreExpressions, o \in Options :
           AddSchedule(f, x, o.enabled, o.description)
    \/ \E f \in StoreFlows : RemoveSchedule(f)
    \/ \E f \in StoreFlows : RemoveScheduleMissing(f)
    \/ LoadSchedules
    \/ \E f \in StoreFlows : MarkRunning(f)
    \/ \E f \in StoreFlows : MarkCompleted(f)
    \/ ClockTick

SpecStore == Init /\ [][NextStore]_vars

\* ScheduleManager.__init__ at the start time, on a document that holds the
\* given flows and expressions
StoreLoaded(entries) ==
    /\ now = StartTime
    /\ heap = [i \in 1..Len(entries) |-> NewEntry(entries[i][1], entries[i][2], TRUE, None)]
    /\ schedules = [i \in 1..Len(entries) |-> [flow_name |-> entries[i][1], entry |-> i]]
    /\ schedule_file = save_schedules(schedules, heap)
    /\ store_call = Called("load", FALSE, TRUE)

\* Scheduler.__init__: no control thread, the event clear, nothing running
DaemonConstructed ==
    /\ loop_pc = "none"
    /\ due = <<>>
    /\ threads = <<>>
    /\ running_flows = [f \in StoreFlows |-> NoThread]
    /\ should_stop = FALSE
    /\ scheduler_thread = NoThread
    /\ start_time = NoTime
    /\ caller = Idle

\* The daemon from its construction on: the store has loaded one entry, of
\* f1 for every minute or of f2 for the 31st; start() has not been called.
InitDaemon ==
    /\ \E entries \in {<<<<"f1", EveryMinute>>>>, <<<<"f2", On31st>>>>} : StoreLoaded(entries)
    /\ DaemonConstructed
    /\ NotPlanned(<<>>) /\ NoSchedule /\ NoScript

NextDaemon ==
    \/ StartRejected
    \/ Start
    \/ StopRejected
    \/ StopSet
    \/ JoinTimesOut
    \/ JoinReturns
    \/ LoopTest
    \/ WaitReturns
    \/ SleepReturns
    \/ LoopTick
    \/ RunFlowStart
    \/ RunFlowRegister
    \/ RunFlowRaises
    \/ \E t \in 1..Len(threads) : ExecuteFlowEnds(t)
    \/ \E t \in 1..Len(threads) : DelRunningFlow(t)
    \/ \E t \in 1..Len(threads) : MarkCompletedFlag(t)
    \/ \E t \in 1..Len(threads) : MarkCompletedNextRun(t)
    \/ ClockTick

SpecDaemon == InitDaemon /\ [][NextDaemon]_vars

\* The control loop and the executions it dispatches, from the first tick
\* of a started daemon on: the store has loaded an entry of f1 for every
\* minute and an entry of f2 for the 31st, both due in the minute after the
\* start.
InitDispatch ==
    /\ StoreLoaded(<<<<"f1", EveryMinute>>, <<"f2", On31st>>>>)
    /\ loop_pc = "test"
    /\ due = <<>>
    /\ threads = <<>>
    /\ running_flows = [f \in StoreFlows |-> NoThread]
    /\ should_stop = FALSE
    /\ scheduler_thread = 1
    /\ start_time = StartTime
    /\ caller = Returned("start", TRUE)
    /\ NotPlanned(<<>>) /\ NoSchedule /\ NoScript

NextDispatch ==
    \/ LoopTest
    \/ WaitReturns
    \/ SleepReturns
    \/ LoopTick
    \/ RunFlowStart
    \/ RunFlowRegister
    \/ RunFlowRaises
    \/ \E t \in 1..Len(threads) : ExecuteFlowEnds(t)
    \/ \E t \in 1..Len(threads) : DelRunningFlow(t)
    \/ \E t \in 1..Len(threads) : MarkCompletedFlag(t)
    \/ \E t \in 1..Len(threads) : MarkCompletedNextRun(t)
    \/ ClockTick

SpecDispatch == InitDispatch /\ [][NextDispatch]_vars

\* ------------------------------------------------------------------------
\* SimpleSchedule alone: an expression is parsed, then the object is asked
\* whether a datetime matches
\* ------------------------------------------------------------------------
Star == <<"*">>

\* the words tried in each of the five fields: */15, */0, 5/10, 1,3,5, 1-5,
\* 7, 0, x, 1-5/2, 1,2-3, 5-1, */-1, 61, -5, 1-2-3, *,5
FieldWords ==
    {<<"*", "/", "1", "5">>, <<"*", "/", "0">>, <<"5", "/", "1", "0">>,
     <<"1", ",", "3", ",", "5">>, <<"1", "-", "5">>, <<"7">>, <<"0">>, <<"x">>,
     <<"1", "-", "5", "/", "2">>, <<"1", ",", "2", "-", "3">>, <<"5", "-", "1">>,
     <<"*", "/", "-", "1">>, <<"6", "1">>, <<"-", "5">>,
     <<"1", "-", "2", "-", "3">>, <<"*", ",", "5">>}

OneField(k, word) == [i \in 1..5 |-> IF i = k THEN word ELSE Star]

\* 0 0 * * *, 0 0 * * 0, 0 0 * * 7, 0 9 * * 1, 0 0 31 * *, 30 12 29 2 *
Midnight == <<<<"0">>, <<"0">>, Star, Star, Star>>
MidnightOn(weekday) == <<<<"0">>, <<"0">>, Star, Star, <<weekday>>>>
SeveralFields ==
    {Midnight, MidnightOn("0"), MidnightOn("7"),
     <<<<"0">>, <<"9">>, Star, Star, <<"1">>>>,
     <<<<"0">>, <<"0">>, <<"3", "1">>, Star, Star>>,
     <<<<"3", "0">>, <<"1", "2">>, <<"2", "9">>, <<"2">>, Star>>}

\* the names, a name the parser does not know, and expressions of 0, 4 and 6
\* words
OtherExpressions ==
    {<<PresetNames.hourly>>, <<PresetNames.daily>>, <<PresetNames.weekly>>,
     <<PresetNames.monthly>>, <<PresetNames.yearly>>, <<PresetNames.annually>>,
     <<<<"@", "x">>>>, <<>>, <<Star, Star, Star, Star>>,
     <<Star, Star, Star, Star, Star, Star>>}

CronExpressions ==
    {OneField(k, word) : k \in 1..5, word \in FieldWords}
        \cup SeveralFields \cup OtherExpressions \cup {OneField(1, Star)}

\* the minute of a day of 2024 (1 = 1 January, a Monday)
At(day_of_year, hour, minute) == (day_of_year - 1) * 1440 + hour * 60 + minute

\* Mon 1 Jan 00:00 and 00:01, Sat 6 Jan 23:45, Sun 7 Jan 00:00 and 09:15,
\* Mon 29 Jan 12:29 and 12:30, Wed 31 Jan 00:00, Thu 29 Feb 12:30,
\* Fri 15 Mar 00:05, Tue 31 Dec 23:59
Datetimes ==
    {At(1, 0, 0), At(1, 0, 1), At(6, 23, 45), At(7, 0, 0), At(7, 9, 15),
     At(29, 12, 29), At(29, 12, 30),
     At(31, 0, 0), At(60, 12, 30), At(75, 0, 5), At(366, 23, 59)}

\* the seconds of the datetimes: a whole minute, and 30 s into it
Seconds == {0, 30}

\* SimpleSchedule(expression): self.parts is set, or the constructor raises
Construct ==
    /\ ~simple_schedule.built
    /\ simple_schedule' =
           LET parsed == parse_expression(read_expression(expression_arg)) IN
           [built |-> TRUE, ok |-> parsed.ok, parts |-> parsed.parts]
    /\ UNCHANGED <<expression_arg, dt_arg, second_arg, returned>>
    /\ UNCHANGED <<daemonVars, planVars, storeVars, lifeVars, scriptVars>>

\* schedule.matches(dt)
Matches ==
    /\ simple_schedule.built /\ simple_schedule.ok
    /\ returned' = [call |-> "matches", matched |-> matches(simple_schedule.parts, dt_arg),
                    next |-> NoTime, second |-> 0]
    /\ UNCHANGED <<expression_arg, simple_schedule, dt_arg, second_arg>>
    /\ UNCHANGED <<daemonVars, planVars, storeVars, lifeVars, scriptVars>>

\* after.replace(second=0, microsecond=0): a datetime is its minute and its
\* seconds within the minute
replace(dt) == [dt EXCEPT !.second = 0]

\* schedule.get_next_occurrence(after): the candidates are the whole minutes
\* that follow the truncated `after`; the one returned keeps the seconds of
\* the candidate
GetNextOccurrence ==
    /\ simple_schedule.built /\ simple_schedule.ok
    /\ returned' =
           LET candidate == replace([minute |-> dt_arg, second |-> second_arg]) IN
           [call |-> "get_next_occurrence", matched |-> FALSE,
            next |-> get_next_occurrence(simple_schedule.parts, candidate.minute),
            second |-> candidate.second]
    /\ UNCHANGED <<expression_arg, simple_schedule, dt_arg, second_arg>>
    /\ UNCHANGED <<daemonVars, planVars, storeVars, lifeVars, scriptVars>>

InitCron ==
    /\ DaemonStarted /\ NotPlanned(<<>>) /\ NoScript
    /\ expression_arg \in CronExpressions
    /\ simple_schedule = [built |-> FALSE, ok |-> FALSE, parts |-> <<>>]
    /\ dt_arg \in Datetimes
    /\ second_arg \in Seconds
    /\ returned = [call |-> "none", matched |-> FALSE, next |-> NoTime, second |-> 0]

NextCron == Construct \/ Matches \/ GetNextOccurrence

SpecCron == InitCron /\ [][NextCron]_vars

\* ------------------------------------------------------------------------
\* Flow definitions: the "tasks" list of a flow document
\*
\* A task id is a string, kept as the tuple of its characters, because the
\* code iterates over a depends_on that is a string.  depends_on is a list of
\* ids (is_list, items) or a single string (items holds that one string); a
\* task without depends_on is the task with the empty list (task.get(
\* "depends_on", [])).
\* ------------------------------------------------------------------------
MaxTasks == 3
MaxDeps == 2
MaxEdges == 3

\* the flows planned again and again: smaller ones
MaxReplanTasks == 2
MaxReplanEdges == 1

Ids == {<<"a">>, <<"b">>, <<"a", "b">>}

\* the depends_on values with at most d ids in a list
DependsOnUpTo(d) ==
    {[is_list |-> TRUE, items |-> s] : s \in UNION {[1..n -> Ids] : n \in 0..d}}
        \cup {[is_list |-> FALSE, items |-> <<i>>] : i \in Ids}

RECURSIVE SumLen(_, _)
SumLen(ts, k) == IF k = 0 THEN 0 ELSE Len(ts[k].depends_on.items) + SumLen(ts, k - 1)

\* the task lists of at most t tasks, d ids in a depends_on, e ids in all
FlowDefsUpTo(t, d, e) ==
    {ts \in UNION {[1..n -> [id : Ids, depends_on : DependsOnUpTo(d)]] : n \in 0..t} :
        SumLen(ts, Len(ts)) <= e}

FlowDefs == FlowDefsUpTo(MaxTasks, MaxDeps, MaxEdges)

ReplanFlowDefs == FlowDefsUpTo(MaxReplanTasks, MaxReplanEdges, MaxReplanEdges)

\* `for dep in deps`: the items of a list, the characters of a string
Iterate(deps) ==
    IF deps.is_list THEN deps.items
    ELSE [k \in 1..Len(deps.items[1]) |-> <<deps.items[1][k]>>]

\* the result of a call: the value returned (ok), or the exception raised with
\* the task ids its message names
Returns(order) == [ok |-> TRUE, order |-> order, kind |-> "none", names |-> <<>>]
Raises(kind, names) == [ok |-> FALSE, order |-> <<>>, kind |-> kind, names |-> names]

\* the task ids from the last declared to the first
task_ids_backwards(ts) == [k \in 1..Len(ts) |-> ts[Len(ts) + 1 - k].id]

\* [task["id"] for task in tasks]
task_ids_of(ts) == [k \in 1..Len(ts) |-> ts[k].id]

\* {task["id"]: task.get("depends_on", []) for task in tasks}: the keys in the
\* order of their first occurrence, each with the value of its last occurrence
RECURSIVE dict_keys(_, _)
dict_keys(ts, k) ==
    IF k = 0 THEN <<>>
    ELSE LET before == dict_keys(ts, k - 1) IN
         IF ts[k].id \in SeqRange(before) THEN before ELSE Append(before, ts[k].id)

dict_get(ts, key) ==
    ts[CHOOSE k \in 1..Len(ts) :
           ts[k].id = key /\ \A j \in (k + 1)..Len(ts) : ts[j].id # key].depends_on

dict_has(ts, key) == \E k \in 1..Len(ts) : ts[k].id = key

\* ------------------------------------------------------------------------
\* executor.get_task_execution_order
\* ------------------------------------------------------------------------
\* the first (task_id, dep) of `for task_id, deps in dependencies.items():
\* for dep in deps` with dep not in task_ids, as <<i, j>>: the i-th key, its
\* j-th dep
missing_pairs(ts) ==
    LET keys == dict_keys(ts, Len(ts)) IN
    {p \in (1..Len(keys)) \X (1..(MaxDeps + 1)) :
        /\ p[2] <= Len(Iterate(dict_get(ts, keys[p[1]])))
        /\ Iterate(dict_get(ts, keys[p[1]]))[p[2]] \notin SeqRange(task_ids_of(ts))}

first_pair(pairs) ==
    CHOOSE p \in pairs :
        \A q \in pairs : p[1] < q[1] \/ (p[1] = q[1] /\ p[2] <= q[2])

\* a planner whose visited set outlives the call (a module-level set, not a
\* local one)
kept_visited(left) ==
    [visited |-> left.visited, temp_visited |-> {}, order |-> <<>>, raised |-> "none",
     names |-> <<>>]

\* visited = set(); temp_visited = set(); order = []: the locals of a call,
\* whatever an earlier call left behind
new_locals(left) ==
    [visited |-> {}, temp_visited |-> {}, order |-> <<>>, raised |-> "none", names |-> <<>>]

RECURSIVE visit(_, _, _)
RECURSIVE visit_deps(_, _, _, _)
visit(ts, s, task_id) ==
    IF s.raised # "none" THEN s
    ELSE IF task_id \in s.temp_visited
    THEN [s EXCEPT !.raised = "cycle", !.names = <<task_id>>]
    ELSE IF task_id \notin s.visited
    THEN LET s1 == [s EXCEPT !.temp_visited = @ \cup {task_id}]
             s2 == visit_deps(ts, s1, Iterate(dict_get(ts, task_id)), 1)
         IN  IF s2.raised # "none" THEN s2
             ELSE [s2 EXCEPT !.temp_visited = @ \ {task_id},
                             !.visited = @ \cup {task_id},
                             !.order = Append(@, task_id)]
    ELSE s

\* for dep in dependencies[task_id]: visit(dep)
visit_deps(ts, s, deps, k) ==
    IF k > Len(deps) \/ s.raised # "none" THEN s
    ELSE visit_deps(ts, visit(ts, s, deps[k]), deps, k + 1)

\* for task_id in task_ids: if task_id not in visited: visit(task_id)
RECURSIVE visit_all(_, _, _, _)
visit_all(ts, s, ids, k) ==
    IF k > Len(ids) \/ s.raised # "none" THEN s
    ELSE visit_all(ts, IF ids[k] \notin s.visited THEN visit(ts, s, ids[k]) ELSE s, ids, k + 1)

\* the call's result and the locals it ends with
get_task_execution_order(ts, left) ==
    IF missing_pairs(ts) # {}
    THEN LET p == first_pair(missing_pairs(ts))
             key == dict_keys(ts, Len(ts))[p[1]]
         IN  [result |-> Raises("missing_dependency",
                                <<key, Iterate(dict_get(ts, key))[p[2]]>>),
              locals |-> left]
    ELSE LET s == visit_all(ts, new_locals(left), task_ids_of(ts), 1) IN
         [result |-> IF s.raised # "none" THEN Raises(s.raised, s.names)
                     ELSE Returns(s.order),
          locals |-> s]

\* ------------------------------------------------------------------------
\* parser (src/parser.py): get_execution_order, check_for_cycles, parse_flow
\* ------------------------------------------------------------------------
\* visit of get_execution_order; graph[node] raises KeyError for a node that
\* is no task
RECURSIVE order_visit(_, _, _)
RECURSIVE order_visit_deps(_, _, _, _)
order_visit(ts, s, node) ==
    IF s.raised # "none" THEN s
    ELSE IF node \in s.temp_visited
    THEN [s EXCEPT !.raised = "cycle", !.names = <<node>>]
    ELSE IF node \notin s.visited
    THEN IF ~dict_has(ts, node)
         THEN [s EXCEPT !.raised = "KeyError", !.names = <<node>>,
                        !.temp_visited = @ \cup {node}]
         ELSE LET s1 == [s EXCEPT !.temp_visited = @ \cup {node}]
                  s2 == order_visit_deps(ts, s1, Iterate(dict_get(ts, node)), 1)
              IN  IF s2.raised # "none" THEN s2
                  ELSE [s2 EXCEPT !.temp_visited = @ \ {node},
                                  !.visited = @ \cup {node},
                                  !.order = Append(@, node)]
    ELSE s

order_visit_deps(ts, s, deps, k) ==
    IF k > Len(deps) \/ s.raised # "none" THEN s
    ELSE order_visit_deps(ts, order_visit(ts, s, deps[k]), deps, k + 1)

RECURSIVE order_visit_all(_, _, _, _)
order_visit_all(ts, s, nodes, k) ==
    IF k > Len(nodes) \/ s.raised # "none" THEN s
    ELSE order_visit_all(ts, IF nodes[k] \notin s.visited THEN order_visit(ts, s, nodes[k]) ELSE s,
                         nodes, k + 1)

\* visited = set(); temp_visited = set(); order = [] of get_execution_order
order_locals ==
    [visited |-> {}, temp_visited |-> {}, order |-> <<>>, raised |-> "none", names |-> <<>>]

Reversed(s) == [k \in 1..Len(s) |-> s[Len(s) + 1 - k]]

get_execution_order(ts) ==
    LET s == order_visit_all(ts, order_locals, dict_keys(ts, Len(ts)), 1) IN
    IF s.raised # "none" THEN Raises(s.raised, s.names) ELSE Returns(Reversed(s.order))

\* dfs of check_for_cycles; graph[node] raises KeyError for a node that is no
\* task.  dfs never returns True, so `if dfs(neighbor): return True` only
\* calls it.
RECURSIVE dfs(_, _, _)
RECURSIVE dfs_neighbors(_, _, _, _, _)
dfs(ts, s, node) ==
    LET s1 == [s EXCEPT !.visited = @ \cup {node}, !.rec_stack = @ \cup {node}] IN
    IF ~dict_has(ts, node)
    THEN [s1 EXCEPT !.raised = "KeyError", !.names = <<node>>]
    ELSE LET s2 == dfs_neighbors(ts, s1, node, Iterate(dict_get(ts, node)), 1) IN
         IF s2.raised # "none" THEN s2 ELSE [s2 EXCEPT !.rec_stack = @ \ {node}]

dfs_neighbors(ts, s, node, neighbors, k) ==
    IF k > Len(neighbors) \/ s.raised # "none" THEN s
    ELSE IF neighbors[k] \notin s.visited
    THEN dfs_neighbors(ts, dfs(ts, s, neighbors[k]), node, neighbors, k + 1)
    ELSE IF neighbors[k] \in s.rec_stack
    THEN [s EXCEPT !.raised = "cycle", !.names = <<node, neighbors[k]>>]
    ELSE dfs_neighbors(ts, s, node, neighbors, k + 1)

\* for node in graph: if node not in visited: dfs(node)
RECURSIVE dfs_all(_, _, _, _)
dfs_all(ts, s, nodes, k) ==
    IF k > Len(nodes) \/ s.raised # "none" THEN s
    ELSE dfs_all(ts, IF nodes[k] \notin s.visited THEN dfs(ts, s, nodes[k]) ELSE s, nodes, k + 1)

check_for_cycles(ts) ==
    LET s == dfs_all(ts, [visited |-> {}, rec_stack |-> {}, raised |-> "none", names |-> <<>>],
                     dict_keys(ts, Len(ts)), 1)
    IN  IF s.raised # "none" THEN Raises(s.raised, s.names) ELSE Returns(<<>>)

\* task["depends_on"] = [task["depends_on"]] for a depends_on that is no list
normalized(task) == [task EXCEPT !.depends_on.is_list = TRUE]

\* the tasks whose depends_on names an id that is no task id, by index
dangling(ts) ==
    {k \in 1..Len(ts) :
        \E j \in 1..Len(ts[k].depends_on.items) :
            ts[k].depends_on.items[j] \notin SeqRange(task_ids_of(ts))}

first_dangling(ts) == CHOOSE k \in dangling(ts) : \A j \in dangling(ts) : k <= j

\* parse_flow of a flow document that has a name, a "tasks" list, and an id
\* and a script in every task.  The result, and the tasks as the call leaves
\* them: depends_on is normalized in place, up to the task that raises.
parse_flow(ts) ==
    IF ts = <<>>
    THEN [result |-> Raises("no_task", <<>>), tasks |-> ts]
    ELSE IF dangling(ts) # {}
    THEN LET k == first_dangling(ts)
             deps == ts[k].depends_on.items
             j == CHOOSE j \in 1..Len(deps) :
                      /\ deps[j] \notin SeqRange(task_ids_of(ts))
                      /\ \A i \in 1..(j - 1) : deps[i] \in SeqRange(task_ids_of(ts))
         IN  [result |-> Raises("missing_dependency", <<ts[k].id, deps[j]>>),
              tasks |-> [i \in 1..Len(ts) |-> IF i <= k THEN normalized(ts[i]) ELSE ts[i]]]
    ELSE LET after == [i \in 1..Len(ts) |-> normalized(ts[i])] IN
         [result |-> check_for_cycles(after), tasks |-> after]

\* featherflow.parser.validate_flow of such a document: "name" is present,
\* "tasks" is a list, every task has "id" and "script".  It has no other
\* check.
validate_flow(ts) ==
    IF \E i \in 1..Len(ts) : "id" \notin DOMAIN ts[i]
    THEN Raises("missing_field", <<>>)
    ELSE Returns(<<>>)

\* the first task of the document that lacks "id" or "script", 0 for none
first_incomplete(doc) ==
    LET lacking == {k \in 1..Len(doc.fields) :
                       ~doc.fields[k].has_id \/ ~doc.fields[k].has_script}
    IN  IF lacking = {} THEN 0 ELSE CHOOSE k \in lacking : \A j \in lacking : k <= j

\* parse_flow of src/parser.py on any document: the required fields "name"
\* and "tasks", "tasks" a list that is not empty, "id" and then "script" of
\* each task in turn, and then the checks of the dependencies
parse_flow_def(doc, ts) ==
    IF ~doc.has_name \/ doc.tasks_type = "missing"
    THEN [result |-> Raises("missing_field", <<>>), tasks |-> ts]
    ELSE IF doc.tasks_type # "list"
    THEN [result |-> Raises("no_task", <<>>), tasks |-> ts]
    ELSE IF first_incomplete(doc) # 0
    THEN [result |-> IF ~doc.fields[first_incomplete(doc)].has_id
                     THEN Raises("missing_field", <<>>)
                     ELSE Raises("missing_field", <<ts[first_incomplete(doc)].id>>),
          tasks |-> ts]
    ELSE parse_flow(ts)

\* featherflow.parser.validate_flow on any document: "name", "tasks" present
\* and a list, "id" and then "script" of each task in turn
validate_flow_def(doc, ts) ==
    IF ~doc.has_name
    THEN Raises("missing_field", <<>>)
    ELSE IF doc.tasks_type # "list"
    THEN Raises("no_task", <<>>)
    ELSE IF first_incomplete(doc) # 0
    THEN IF ~doc.fields[first_incomplete(doc)].has_id
         THEN Raises("missing_field", <<>>)
         ELSE Raises("missing_field", <<ts[first_incomplete(doc)].id>>)
    ELSE validate_flow(ts)

\* ------------------------------------------------------------------------
\* Planning: the calls a caller makes on one flow document
\* ------------------------------------------------------------------------
\* get_task_execution_order calls on one document
MaxPlans == 2

ParseFlow ==
    /\ LET r == parse_flow_def(flow_def, tasks) IN
           /\ tasks' = r.tasks
           /\ result' = r.result
    /\ call' = "parse_flow"
    /\ UNCHANGED <<locals, plans, first_plan, flow_def>>
    /\ UNCHANGED <<daemonVars, storeVars, cronVars, lifeVars, scriptVars>>

ValidateFlow ==
    /\ result' = validate_flow_def(flow_def, tasks)
    /\ call' = "validate_flow"
    /\ UNCHANGED <<tasks, locals, plans, first_plan, flow_def>>
    /\ UNCHANGED <<daemonVars, storeVars, cronVars, lifeVars, scriptVars>>

CheckForCycles ==
    /\ result' = check_for_cycles(tasks)
    /\ call' = "check_for_cycles"
    /\ UNCHANGED <<tasks, locals, plans, first_plan, flow_def>>
    /\ UNCHANGED <<daemonVars, storeVars, cronVars, lifeVars, scriptVars>>

GetExecutionOrder ==
    /\ result' = get_execution_order(tasks)
    /\ call' = "get_execution_order"
    /\ UNCHANGED <<tasks, locals, plans, first_plan, flow_def>>
    /\ UNCHANGED <<daemonVars, storeVars, cronVars, lifeVars, scriptVars>>

GetTaskExecutionOrder ==
    /\ plans < MaxPlans
    /\ LET r == get_task_execution_order(tasks, locals) IN
           /\ result' = r.result
           /\ locals' = r.locals
    /\ call' = "get_task_execution_order"
    /\ plans' = plans + 1
    /\ first_plan' = IF plans = 0 THEN [tasks |-> tasks, result |-> result'] ELSE first_plan
    /\ UNCHANGED <<tasks, flow_def>>
    /\ UNCHANGED <<daemonVars, storeVars, cronVars, lifeVars, scriptVars>>

InitPlan == DaemonStarted /\ NoScript /\ \E ts \in FlowDefs : NotPlanned(ts) /\ NoSchedule

NextPlan ==
    \/ ParseFlow
    \/ ValidateFlow
    \/ CheckForCycles
    \/ GetExecutionOrder
    \/ GetTaskExecutionOrder

SpecPlan == InitPlan /\ [][NextPlan]_vars

\* the same calls on the smaller flows
InitReplan == DaemonStarted /\ NoScript /\ \E ts \in ReplanFlowDefs : NotPlanned(ts) /\ NoSchedule

SpecReplan == InitReplan /\ [][NextPlan]_vars

\* the flows whose tasks have different ids, of up to as many tasks as there
\* are ids
DistinctFlowDefs ==
    {ts \in UNION {[1..n -> [id : Ids, depends_on : DependsOnUpTo(MaxReplanEdges)]] :
                       n \in 0..Cardinality(Ids)} :
        /\ \A j, k \in 1..Len(ts) : j # k => ts[j].id # ts[k].id
        /\ SumLen(ts, Len(ts)) <= MaxReplanEdges}

\* the same calls on the flows with different ids
InitDistinct == DaemonStarted /\ NoScript /\ \E ts \in DistinctFlowDefs : NotPlanned(ts) /\ NoSchedule

SpecDistinct == InitDistinct /\ [][NextPlan]_vars

\* the validation of one document, by either parser.  The documents: with
\* or without a name; without "tasks", with a string or with a list under
\* it; each task with or without an id and a script
InitValidate ==
    /\ DaemonStarted /\ NoScript /\ NoSchedule
    /\ \/ \E ts \in ReplanFlowDefs, n \in BOOLEAN :
              \E f \in [1..Len(ts) -> [has_id : BOOLEAN, has_script : BOOLEAN]] :
                  /\ tasks = ts
                  /\ flow_def = [has_name |-> n, tasks_type |-> "list", fields |-> f]
       \/ \E n \in BOOLEAN, t \in {"missing", "str"} :
              /\ tasks = <<>>
              /\ flow_def = [has_name |-> n, tasks_type |-> t, fields |-> <<>>]
    /\ call = "none"
    /\ result = [ok |-> TRUE, order |-> <<>>, kind |-> "none", names |-> <<>>]
    /\ locals = [visited |-> {}, temp_visited |-> {}, order |-> <<>>,
                 raised |-> "none", names |-> <<>>]
    /\ plans = 0
    /\ first_plan = [tasks |-> <<>>, result |-> result]

NextValidate ==
    \/ ParseFlow
    \/ ValidateFlow

SpecValidate == InitValidate /\ [][NextValidate]_vars

\* ------------------------------------------------------------------------
\* The generated script (src/executor.py): generate_script writes
\* generate_script_content(flow, get_task_execution_order(flow["tasks"]),
\* tasks_dir) to a file, and the file is run by bash.
\*
\* The scheduler runs each flow's script from a thread of the one daemon
\* process (os.system / subprocess.Popen without cwd), so "$PWD" is the same
\* directory in every run and TEMP_DIR="$PWD/tmp" names one directory.
\* A run is at one of these places of its script:
\*   "start"     before mkdir -p "$TEMP_DIR"
\*   "trap"      after the mkdir and the -d test, before trap ... EXIT
\*   "gate"      at the while condition of the gate of its dep-th dependency
\*   "sleep"     in the sleep 5 of that gate
\*   "command"   before the task's command
\*   "running"   the command runs
\*   "record"    at echo "$task_status" > "$TEMP_DIR/<id>.status"
\*   "complete"  at echo "Flow completed successfully"
\*   "exited"    the shell has exited and its EXIT trap has run
\* started, finished and recorded are history: the ids whose command this run
\* started, the exit statuses they ended with, the ids whose status file it
\* wrote.  polls counts the "Waiting for dependency" lines it has printed,
\* status_lines holds its "[FEATHERFLOW_STATUS] Task <id> completed with status
\* <n>" lines as <<id, n>>.  trap tells whether the EXIT trap is installed.
\* ------------------------------------------------------------------------
\* the scripts run at once
MaxRuns == 2

\* the "Waiting for dependency" lines of a run
MaxPolls == 2

\* the exit statuses of a task's command
ExitStatuses == {0, 1}

\* the flows the scripts are generated from
ScriptFlowList ==
    <<<<[id |-> <<"a">>, depends_on |-> [is_list |-> TRUE, items |-> <<>>]]>>,
     <<[id |-> <<"a", "b">>, depends_on |-> [is_list |-> TRUE, items |-> <<>>]]>>,
     <<[id |-> <<"a">>, depends_on |-> [is_list |-> TRUE, items |-> <<>>]],
       [id |-> <<"b">>, depends_on |-> [is_list |-> TRUE, items |-> <<<<"a">>>>]]>>,
     <<[id |-> <<"b">>, depends_on |-> [is_list |-> TRUE, items |-> <<<<"a">>>>]],
       [id |-> <<"a">>, depends_on |-> [is_list |-> TRUE, items |-> <<>>]]>>,
     <<[id |-> <<"a", "b">>, depends_on |-> [is_list |-> FALSE, items |-> <<<<"b">>>>]],
       [id |-> <<"b">>, depends_on |-> [is_list |-> TRUE, items |-> <<>>]]>>>>

ScriptFlows == SeqRange(ScriptFlowList)

\* the order of the tasks of the flow as they are declared
declaration_order(ts) == dict_keys(ts, Len(ts))

\* task_order = get_task_execution_order(flow["tasks"])
task_order(ts) ==
    get_task_execution_order(ts, [visited |-> {}, temp_visited |-> {}, order |-> <<>>,
                                  raised |-> "none", names |-> <<>>]).result.order

\* for dep_id in task["depends_on"], of task = task_map[task_id]
depends_on_of(ts, task_id) == Iterate(dict_get(ts, task_id))

\* echo "$task_status": the text of a status file
echo_status(task_status) == IF task_status = 0 THEN "0" ELSE "1"

\* the script of a flow, not yet run
Generated(ts) ==
    [flow |-> ts, order |-> task_order(ts), pc |-> "start", step |-> 1, dep |-> 1,
     task_status |-> 0, code |-> 0, polls |-> 0, trap |-> FALSE, started |-> <<>>,
     finished |-> <<>>, status_lines |-> <<>>, recorded |-> {}]

\* the run at the first line of the step-th task command, or after the last
AtStep(run, step) ==
    IF step > Len(run.order)
    THEN [run EXCEPT !.step = step, !.dep = 1, !.pc = "complete"]
    ELSE [run EXCEPT !.step = step, !.dep = 1,
                     !.pc = IF depends_on_of(run.flow, run.order[step]) = <<>>
                            THEN "command" ELSE "gate"]

\* exit: the shell ends with the code, after its trap
Exited(run, code) == [run EXCEPT !.pc = "exited", !.code = code]

\* trap '...; rm -rf "$TEMP_DIR"; ...' EXIT
Removed == NoDir

\* [[ -f "$TEMP_DIR/<dep_id>.status" && "$(cat ...)" == "0" ]]
GateOpen(dep_id) == temp_dir.exists /\ temp_dir.status[dep_id] = "0"

\* mkdir -p "$TEMP_DIR"; the -d test
ScriptStart(r) ==
    /\ runs[r].pc = "start"
    /\ temp_dir' = [temp_dir EXCEPT !.exists = TRUE]
    /\ runs' = [runs EXCEPT ![r].pc = "trap"]
    /\ UNCHANGED <<daemonVars, planVars, storeVars, cronVars, lifeVars>>

\* trap '...' EXIT; echo "Starting flow"
SetTrap(r) ==
    /\ runs[r].pc = "trap"
    /\ runs' = [runs EXCEPT ![r] = AtStep([@ EXCEPT !.trap = TRUE], 1)]
    /\ UNCHANGED temp_dir
    /\ UNCHANGED <<daemonVars, planVars, storeVars, cronVars, lifeVars>>

\* SIGTERM reaches the shell: it ends (status 128 + 15), and the EXIT trap
\* runs if it is installed.  While a command runs the shell acts on the signal only after
\* the command has ended, which is this step taken after CommandExits.
Interrupt(r) ==
    /\ runs[r].pc \notin {"running", "exited"}
    /\ runs' = [runs EXCEPT ![r] = Exited(@, 143)]
    /\ temp_dir' = IF runs[r].trap THEN Removed ELSE temp_dir
    /\ UNCHANGED <<daemonVars, planVars, storeVars, cronVars, lifeVars>>

\* the while condition of a gate is false: on to the next gate, or the command
GatePasses(r) ==
    /\ runs[r].pc = "gate"
    /\ LET deps == depends_on_of(runs[r].flow, runs[r].order[runs[r].step]) IN
           /\ GateOpen(deps[runs[r].dep])
           /\ runs' = [runs EXCEPT ![r].dep = @ + 1,
                                   ![r].pc = IF runs[r].dep = Len(deps) THEN "command"
                                             ELSE "gate"]
    /\ UNCHANGED temp_dir
    /\ UNCHANGED <<daemonVars, planVars, storeVars, cronVars, lifeVars>>

\* the while condition of a gate is true: echo "Waiting ..."; sleep 5
GateWaits(r) ==
    /\ runs[r].pc = "gate"
    /\ runs[r].polls < MaxPolls
    /\ LET deps == depends_on_of(runs[r].flow, runs[r].order[runs[r].step]) IN
           ~GateOpen(deps[runs[r].dep])
    /\ runs' = [runs EXCEPT ![r].pc = "sleep", ![r].polls = @ + 1]
    /\ UNCHANGED temp_dir
    /\ UNCHANGED <<daemonVars, planVars, storeVars, cronVars, lifeVars>>

\* sleep 5 ends: back to the while condition
SleepEnds(r) ==
    /\ runs[r].pc = "sleep"
    /\ runs' = [runs EXCEPT ![r].pc = "gate"]
    /\ UNCHANGED temp_dir
    /\ UNCHANGED <<daemonVars, planVars, storeVars, cronVars, lifeVars>>

\* TMP_DIR="$TEMP_DIR" python <script> ...: the command is started
CommandStarts(r) ==
    /\ runs[r].pc = "command"
    /\ runs' = [runs EXCEPT ![r].pc = "running",
                            ![r].started = Append(@, runs[r].order[runs[r].step])]
    /\ UNCHANGED temp_dir
    /\ UNCHANGED <<daemonVars, planVars, storeVars, cronVars, lifeVars>>

\* a script that goes on after a command that failed (command || true)
CommandExitsIgnoringStatus(r, status) ==
    /\ runs[r].pc = "running"
    /\ runs' = [runs EXCEPT
                   ![r].finished = Append(@, <<runs[r].order[runs[r].step], status>>),
                   ![r].task_status = 0,
                   ![r].status_lines = Append(@, <<runs[r].order[runs[r].step], 0>>),
                   ![r].pc = "record"]
    /\ UNCHANGED temp_dir
    /\ UNCHANGED <<daemonVars, planVars, storeVars, cronVars, lifeVars>>

\* the command ends.  With a status other than 0, set -e ends the shell there
\* (the trap runs); with 0, task_status=$? and the [FEATHERFLOW_STATUS] echo
CommandExits(r, status) ==
    /\ runs[r].pc = "running"
    /\ LET run == [runs[r] EXCEPT
                      !.finished = Append(@, <<runs[r].order[runs[r].step], status>>)] IN
       IF status # 0
       THEN /\ runs' = [runs EXCEPT ![r] = Exited(run, status)]
            /\ temp_dir' = Removed
       ELSE /\ runs' = [runs EXCEPT
                           ![r] = [run EXCEPT
                                      !.task_status = status,
                                      !.status_lines =
                                          Append(@, <<runs[r].order[runs[r].step], status>>),
                                      !.pc = "record"]]
            /\ UNCHANGED temp_dir
    /\ UNCHANGED <<daemonVars, planVars, storeVars, cronVars, lifeVars>>

\* echo "$task_status" > "$TEMP_DIR/<id>.status", which fails without the
\* directory (set -e ends the shell with 1); then if [[ $task_status -ne 0 ]]
\* exit $task_status, else the next task
RecordStatus(r) ==
    /\ runs[r].pc = "record"
    /\ LET task_id == runs[r].order[runs[r].step] IN
       IF ~temp_dir.exists
       THEN /\ runs' = [runs EXCEPT ![r] = Exited(@, 1)]
            /\ temp_dir' = Removed
       ELSE IF runs[r].task_status # 0
       THEN /\ runs' = [runs EXCEPT ![r] = Exited(@, runs[r].task_status)]
            /\ temp_dir' = Removed
       ELSE /\ temp_dir' = [temp_dir EXCEPT !.status[task_id] = echo_status(runs[r].task_status)]
            /\ runs' = [runs EXCEPT
                           ![r] = AtStep([@ EXCEPT !.recorded = @ \cup {task_id}],
                                         runs[r].step + 1)]
    /\ UNCHANGED <<daemonVars, planVars, storeVars, cronVars, lifeVars>>

\* echo "Flow completed successfully": the shell ends with 0, the trap runs
FlowCompletes(r) ==
    /\ runs[r].pc = "complete"
    /\ runs' = [runs EXCEPT ![r] = Exited(@, 0)]
    /\ temp_dir' = Removed
    /\ UNCHANGED <<daemonVars, planVars, storeVars, cronVars, lifeVars>>

\* the scripts of MaxRuns flows, generated and about to be run in the daemon's
\* working directory.  The runs are interchangeable: they are numbered in the
\* order of their flows in ScriptFlowList.
InitScript ==
    /\ DaemonStarted /\ NotPlanned(<<>>) /\ NoSchedule
    /\ \E flows \in [1..MaxRuns -> 1..Len(ScriptFlowList)] :
           /\ \A r \in 1..(MaxRuns - 1) : flows[r] <= flows[r + 1]
           /\ runs = [r \in 1..MaxRuns |-> Generated(ScriptFlowList[flows[r]])]
    /\ temp_dir = NoDir

NextScript ==
    \/ \E r \in DOMAIN runs : ScriptStart(r)
    \/ \E r \in DOMAIN runs : SetTrap(r)
    \/ \E r \in DOMAIN runs : Interrupt(r)
    \/ \E r \in DOMAIN runs : GatePasses(r)
    \/ \E r \in DOMAIN runs : GateWaits(r)
    \/ \E r \in DOMAIN runs : SleepEnds(r)
    \/ \E r \in DOMAIN runs : CommandStarts(r)
    \/ \E r \in DOMAIN runs, status \in ExitStatuses : CommandExits(r, status)
    \/ \E r \in DOMAIN runs : RecordStatus(r)
    \/ \E r \in DOMAIN runs : FlowCompletes(r)

SpecScript == InitScript /\ [][NextScript]_vars

\* the next line of the script of run r: a shell that is not interrupted goes
\* on, and a task command that was started ends
ScriptStep(r) ==
    \/ ScriptStart(r)
    \/ SetTrap(r)
    \/ GatePasses(r)
    \/ GateWaits(r)
    \/ SleepEnds(r)
    \/ CommandStarts(r)
    \/ \E status \in ExitStatuses : CommandExits(r, status)
    \/ RecordStatus(r)
    \/ FlowCompletes(r)

\* the scripts, the shell of the first run running on as long as it has a
\* next line; the other runs may never be started (the runs of every flow
\* are first in some initial state)
SpecScriptLive == SpecScript /\ WF_vars(ScriptStep(1))

\* ------------------------------------------------------------------------
\* Claims about the daemon
\* ------------------------------------------------------------------------
\* the executions of flow f in flight: threads inside execute_flow
InFlight(f) == {t \in 1..Len(threads) : threads[t].flow_name = f /\ threads[t].pc = "exec"}

\* the threads of entry i that have yet to set its running flag to False
Finalizers(i) ==
    {t \in 1..Len(threads) :
        threads[t].schedule = i /\ threads[t].pc \in {"exec", "del", "mark_completed"}}

\* C1: at most one execution dispatched for a flow name is in flight, under
\* any interleaving of ticks, thread completions and add/remove calls.
C1_AtMostOneActiveRun == \A f \in Flows : Cardinality(InFlight(f)) <= 1

\* C8: from mark_running on, should_run() is false until a mark_completed()
\* has computed the next next_run (and that next_run has elapsed, which
\* should_run tests itself).
C8_NotDueUntilCompleted ==
    \A i \in 1..Len(heap) : heap[i].phase = "marked" => ~should_run(heap[i])

\* C9: once an execution of an entry has ended, the entry is dispatched again
\* (running false -> true) only for a next_run strictly after the time that
\* execution ended: no second run of the slot it was dispatched for.
C9_NoRedispatchBeforeNewNextRun ==
    [][\A i \in 1..Len(heap) :
          (~heap[i].running /\ heap'[i].running /\ heap[i].ended # NoTime)
              => heap[i].next_run > heap[i].ended]_vars

\* C10: an entry marked running has a thread that will still mark it
\* completed: no entry stays running after its execution thread has ended.
C10_RunningHasFinalizer ==
    \A i \in 1..Len(heap) : heap[i].running => Finalizers(i) # {}

\* the threads of flow f that have not ended
Alive(f) ==
    {t \in 1..Len(threads) :
        threads[t].flow_name = f /\ threads[t].pc \in {"exec", "del", "mark_completed", "next_run"}}

\* C11: whenever no execution of flow f is in flight and the control thread
\* is not inside a dispatch, running_flows holds no record for f.
C11_RecordOnlyWhileInFlight ==
    \A f \in Flows :
        (Alive(f) = {} /\ loop_pc = "wait") => running_flows[f] = NoThread

\* ------------------------------------------------------------------------
\* Claims about validation and ordering
\* ------------------------------------------------------------------------
\* the ids a task declares as its dependencies
Declared(task) == SeqRange(task.depends_on.items)

TaskIds(ts) == SeqRange(task_ids_of(ts))

\* the ids that the tasks with an id of S declare
DeclaredBy(ts, S) == UNION {Declared(ts[k]) : k \in {j \in 1..Len(ts) : ts[j].id \in S}}

\* the direct and transitive dependencies of the ids of S
RECURSIVE Closure(_, _, _)
Closure(ts, S, n) ==
    IF n = 0 THEN S ELSE Closure(ts, S \cup DeclaredBy(ts, S), n - 1)

Dependencies(ts, id) == Closure(ts, DeclaredBy(ts, {id}), Len(ts))

Resolves(ts) == \A k \in 1..Len(ts) : Declared(ts[k]) \subseteq TaskIds(ts)
Cyclic(ts) == \E k \in 1..Len(ts) : ts[k].id \in Dependencies(ts, ts[k].id)
HasDuplicate(ts) == \E j, k \in 1..Len(ts) : j # k /\ ts[j].id = ts[k].id

Pos(order, id) == CHOOSE k \in 1..Len(order) : order[k] = id

\* each task id exactly once, every id after all of its dependencies
IsTopologicalOrder(ts, order) ==
    /\ SeqRange(order) = TaskIds(ts)
    /\ \A j, k \in 1..Len(order) : j # k => order[j] # order[k]
    /\ \A id \in TaskIds(ts) : \A dep \in Dependencies(ts, id) :
           dep \in SeqRange(order) /\ Pos(order, dep) < Pos(order, id)

\* C2: for an acyclic task set whose dependencies all resolve,
\* get_task_execution_order returns each task id exactly once, every task
\* after all of its direct and transitive dependencies.
C2_OrderIsTopological ==
    (call = "get_task_execution_order" /\ Resolves(tasks) /\ ~Cyclic(tasks))
        => (result.ok /\ IsTopologicalOrder(tasks, result.order))

\* C3: a task set whose dependency relation has a cycle is rejected with an
\* error by check_for_cycles, get_execution_order and
\* get_task_execution_order: none of them returns an order.
C3_CycleRejected ==
    (call \in {"check_for_cycles", "get_execution_order", "get_task_execution_order"}
        /\ Cyclic(tasks)) => ~result.ok

\* C4: the error raised for a cycle names both tasks of the back-edge: the
\* task being visited and the in-progress task it depends on.
C4_CycleErrorNamesBoth ==
    (call \in {"check_for_cycles", "get_execution_order", "get_task_execution_order"}
        /\ result.kind = "cycle") => Len(result.names) = 2

\* C5: a flow with a depends_on that names no task of the flow is rejected by
\* validation and by get_task_execution_order, with an error that names the
\* task and the missing dependency (raised before the traversal, which would
\* report a cycle or return an order).
C5_DanglingRejected ==
    (call \in {"parse_flow", "validate_flow", "get_task_execution_order"}
        /\ ~Resolves(tasks))
        => /\ result.kind = "missing_dependency"
           /\ \E k \in 1..Len(tasks) :
                  /\ result.names[1] = tasks[k].id
                  /\ result.names[2] \in Declared(tasks[k]) \ TaskIds(tasks)

\* C6: a flow in which two tasks have the same id never passes validation and
\* is never ordered.
C6_DuplicateRejected ==
    (call \in {"parse_flow", "validate_flow", "get_execution_order",
               "get_task_execution_order"}
        /\ HasDuplicate(tasks)) => ~result.ok

\* C7: ordering the same valid flow again yields the identical sequence of
\* task ids, whatever planning calls were made before.
C7_OrderingDeterministic ==
    (call = "get_task_execution_order" /\ first_plan.tasks = tasks /\ first_plan.result.ok)
        => result = first_plan.result

\* the second get_task_execution_order call on the flow a, b (after a) has
\* returned
C7_Witness ==
    /\ call = "get_task_execution_order"
    /\ plans = 2
    /\ first_plan.tasks = tasks
    /\ result.ok
    /\ tasks = <<[id |-> <<"a">>, depends_on |-> [is_list |-> TRUE, items |-> <<>>]],
                 [id |-> <<"b">>, depends_on |-> [is_list |-> TRUE, items |-> <<<<"a">>>>]]>>
    /\ result.order = <<<<"a">>, <<"b">>>>

\* ------------------------------------------------------------------------
\* Claims about the schedule store
\* ------------------------------------------------------------------------
\* the entries (objects) of the store
StoreEntries == {schedules[k].entry : k \in 1..Len(schedules)}

\* C12: get_due_schedules returns exactly the entries of the store that are
\* enabled, not running and whose next_run is not after now, each once.
C12_DueExactly ==
    /\ SeqRange(get_due_schedules) =
           {i \in StoreEntries :
               heap[i].enabled /\ ~heap[i].running /\ heap[i].next_run <= now}
    /\ Cardinality(SeqRange(get_due_schedules)) = Len(get_due_schedules)

\* a store of two entries whose next_run has come: one is returned, the
\* other is running and is not
C12_Witness ==
    \E i, j \in StoreEntries :
        /\ i # j
        /\ get_due_schedules = <<i>>
        /\ heap[j].enabled /\ heap[j].running /\ heap[j].next_run <= now

\* a malformed expression: not five fields, or a field that is none of
\* "*", "*/n", a list, a range, a number
Malformed(x) ==
    LET parts == ExpandPreset(x) IN
    \/ Len(parts) # 5
    \/ \E i \in 1..Len(parts) :
           /\ parts[i][1] \notin {"star", "list", "range", "value"}
           /\ ~(parts[i][1] = "step" /\ parts[i][2] = "star")

\* the malformed expressions the store is called with
MalformedExpressions == {y \in StoreExpressions : Malformed(y)}

\* C13: an add_schedule with a malformed expression returns False and
\* leaves the store as it was: the dict, its entries and the document.
C13_MalformedAddChangesNothing ==
    [][store_call'.op = "add_schedule"
       => \A f \in StoreFlows :
           (\E x \in MalformedExpressions :
               AddScheduleFails(f, x)
                   \/ \E o \in Options : AddSchedule(f, x, o.enabled, o.description))
           => /\ store_call'.ret = FALSE
              /\ UNCHANGED <<schedules, schedule_file, heap>>]_vars

\* a failed add on a store that holds an entry, at the start time, where
\* every well-formed expression of the model has a next run
C13_Witness ==
    /\ now = StartTime
    /\ store_call = Called("add_schedule", TRUE, FALSE)
    /\ Len(schedules) = 1
    /\ schedule_file.exists /\ Len(schedule_file.schedules) = 1

\* the number of entries get_all_schedules returns for flow f
CountOf(f) ==
    Cardinality({k \in 1..Len(get_all_schedules) : heap[get_all_schedules[k]].flow_name = f})

\* C14: the store holds at most one entry per flow name.  After a
\* successful add_schedule, get_schedule returns an entry with the new
\* expression, enabled flag and description, and get_all_schedules holds the
\* flow once.  remove_schedule returns True exactly when the flow had an
\* entry, and afterwards get_schedule returns None.
C14_OneEntryPerFlow ==
    [][/\ \A f \in StoreFlows : CountOf(f)' <= 1
       /\ (store_call'.op = "add_schedule" /\ store_call'.ret)
          => \A f \in StoreFlows, x \in StoreExpressions, o \in Options :
              AddSchedule(f, x, o.enabled, o.description)
              => /\ store_call'.ret
                 /\ get_schedule(f)' # NoEntry
                 /\ heap'[get_schedule(f)'].cron_expression = x
                 /\ heap'[get_schedule(f)'].enabled = o.enabled
                 /\ heap'[get_schedule(f)'].description = o.description
                 /\ CountOf(f)' = 1
       /\ store_call'.op = "remove_schedule"
          => \A f \in StoreFlows :
              (RemoveSchedule(f) \/ RemoveScheduleMissing(f))
              => /\ store_call'.ret = (get_schedule(f) # NoEntry)
                 /\ get_schedule(f)' = NoEntry]_vars

\* an add that replaced the entry of a flow: the store holds the new one only
C14_Witness ==
    /\ store_call = Called("add_schedule", TRUE, TRUE)
    /\ Len(schedules) = 1
    /\ heap[schedules[1].entry].cron_expression = Daily
    /\ heap[schedules[1].entry].description = "nightly"
    /\ \E i \in 1..Len(heap) : heap[i].phase = "freed"

\* C15: from_dict(to_dict(e)) is an entry with the flow name, expression,
\* enabled flag, description, last_run and next_run of e, for every entry e
\* of the store.
C15_RoundTrip ==
    \A i \in StoreEntries :
        LET data == to_dict(heap[i]) IN
        /\ ~from_dict_raises(data)
        /\ from_dict(data).flow_name = heap[i].flow_name
        /\ from_dict(data).cron_expression = heap[i].cron_expression
        /\ from_dict(data).enabled = heap[i].enabled
        /\ from_dict(data).description = heap[i].description
        /\ from_dict(data).last_run = heap[i].last_run
        /\ from_dict(data).next_run = heap[i].next_run

\* the record of flow f in the saved document
SavedRecord(f) ==
    CHOOSE r \in SeqRange(schedule_file.schedules) : r.flow_name = f

\* C16: after add_schedule(f, "@daily") the document holds for f the
\* expression "0 0 * * *", and a store constructed from the document holds
\* for f an entry equal to the one added.
C16_DailyPersistedExpanded ==
    [][\A f \in StoreFlows, o \in Options :
           AddSchedule(f, Daily, o.enabled, o.description)
           => /\ SavedRecord(f)'.cron_expression = Cron(Presets.daily)
              /\ LET loaded == load_schedules(schedule_file.schedules, <<>>, <<>>)' IN
                 \E k \in 1..Len(loaded.schedules) :
                     /\ loaded.schedules[k].flow_name = f
                     /\ loaded.heap[loaded.schedules[k].entry] = heap'[get_schedule(f)']]_vars

\* ------------------------------------------------------------------------
\* Claims about SimpleSchedule
\* ------------------------------------------------------------------------
\* the datetimes of the model as a calendar shows them
Calendar ==
    {[t |-> At(1, 0, 0),     month |-> 1,  day |-> 1,  weekday |-> "Mon", hour |-> 0,  minute |-> 0],
     [t |-> At(1, 0, 1),     month |-> 1,  day |-> 1,  weekday |-> "Mon", hour |-> 0,  minute |-> 1],
     [t |-> At(6, 23, 45),   month |-> 1,  day |-> 6,  weekday |-> "Sat", hour |-> 23, minute |-> 45],
     [t |-> At(7, 0, 0),     month |-> 1,  day |-> 7,  weekday |-> "Sun", hour |-> 0,  minute |-> 0],
     [t |-> At(7, 9, 15),    month |-> 1,  day |-> 7,  weekday |-> "Sun", hour |-> 9,  minute |-> 15],
     [t |-> At(29, 12, 29),  month |-> 1,  day |-> 29, weekday |-> "Mon", hour |-> 12, minute |-> 29],
     [t |-> At(29, 12, 30),  month |-> 1,  day |-> 29, weekday |-> "Mon", hour |-> 12, minute |-> 30],
     [t |-> At(31, 0, 0),    month |-> 1,  day |-> 31, weekday |-> "Wed", hour |-> 0,  minute |-> 0],
     [t |-> At(60, 12, 30),  month |-> 2,  day |-> 29, weekday |-> "Thu", hour |-> 12, minute |-> 30],
     [t |-> At(75, 0, 5),    month |-> 3,  day |-> 15, weekday |-> "Fri", hour |-> 0,  minute |-> 5],
     [t |-> At(366, 23, 59), month |-> 12, day |-> 31, weekday |-> "Tue", hour |-> 23, minute |-> 59]}

OnCalendar(t) == CHOOSE c \in Calendar : c.t = t

\* the weekday number of cron: Sunday is 0
CronWeekday ==
    [Sun |-> 0, Mon |-> 1, Tue |-> 2, Wed |-> 3, Thu |-> 4, Fri |-> 5, Sat |-> 6]

\* C17: matches(dt) is true exactly when the minute, the hour, the day of
\* the month, the month and the cron weekday (Sunday = 0) of dt each belong
\* to the set of their field; "0 0 * * *" matches exactly at minute 0 of
\* hour 0.
C17_MatchesAllFiveFields ==
    returned.call = "matches" =>
        LET c == OnCalendar(dt_arg)
            parts == simple_schedule.parts
        IN  /\ returned.matched =
                   (/\ c.minute \in parts[1]
                    /\ c.hour \in parts[2]
                    /\ c.day \in parts[3]
                    /\ c.month \in parts[4]
                    /\ CronWeekday[c.weekday] \in parts[5])
            /\ expression_arg = Midnight =>
                   (returned.matched = (c.minute = 0 /\ c.hour = 0))

\* "0 0 * * 0" matches midnight of Sunday 7 January 2024
C17_Witness ==
    /\ returned.call = "matches"
    /\ returned.matched
    /\ expression_arg = MidnightOn("0")
    /\ dt_arg = At(7, 0, 0)

\* C18: 7 as the day of the week is Sunday, as 0 is: an expression with 7
\* in its fifth field is parsed to the sets of the same expression with 0
\* there, and matches the same datetimes.
C18_SevenIsSunday ==
    (simple_schedule.built /\ Len(expression_arg) = 5 /\ expression_arg[5] = <<"7">>) =>
        LET with_zero == parse_expression(read_expression([expression_arg EXCEPT ![5] = <<"0">>]))
        IN  /\ simple_schedule.ok = with_zero.ok
            /\ simple_schedule.parts = with_zero.parts
            /\ returned.call = "matches" =>
                   returned.matched = matches(with_zero.parts, dt_arg)

\* The syntax of a field, written out: its text and the set it denotes in
\* field i.  Numbers are written in decimal.
Decimal(n) ==
    IF n < 10 THEN <<DigitChars[n + 1]>>
    ELSE <<DigitChars[(n \div 10) + 1], DigitChars[(n % 10) + 1]>>

RECURSIVE Joined(_)
Joined(numbers) ==
    IF Len(numbers) = 1 THEN Decimal(numbers[1])
    ELSE Decimal(numbers[1]) \o <<",">> \o Joined(Tail(numbers))

Domain(i) == <<0..59, 0..23, 1..31, 1..12, 0..6>>[i]

Forms ==
    {[kind |-> "star", numbers |-> <<>>]}
        \cup {[kind |-> "step", numbers |-> <<n>>] : n \in 1..60}
        \cup {[kind |-> "value", numbers |-> <<v>>] : v \in 0..61}
        \cup {[kind |-> "range", numbers |-> <<a, b>>] : a, b \in 0..9}
        \cup {[kind |-> "list", numbers |-> <<1, 3, 5>>], [kind |-> "list", numbers |-> <<0, 30>>]}

Text(form) ==
    IF form.kind = "star" THEN <<"*">>
    ELSE IF form.kind = "step" THEN <<"*", "/">> \o Decimal(form.numbers[1])
    ELSE IF form.kind = "value" THEN Decimal(form.numbers[1])
    ELSE IF form.kind = "range"
         THEN Decimal(form.numbers[1]) \o <<"-">> \o Decimal(form.numbers[2])
    ELSE Joined(form.numbers)

Denoted(i, form) ==
    IF form.kind = "star" THEN Domain(i)
    ELSE IF form.kind = "step"
         THEN {v \in Domain(i) : \E q \in 0..v : v = q * form.numbers[1]}
    ELSE IF form.kind = "value" THEN {form.numbers[1]}
    ELSE IF form.kind = "range"
         THEN {v \in 0..9 : form.numbers[1] <= v /\ v <= form.numbers[2]}
    ELSE {form.numbers[k] : k \in 1..Len(form.numbers)}

\* C19: each field of a parsed expression is the set its syntax denotes:
\* the whole domain for "*", the members of the domain divisible by n for
\* "*/n", the listed values for "a,b,c", every integer from a to b for
\* "a-b", the value for a number; "*/15 * * * *" gives the minutes
\* 0, 15, 30, 45.
C19_FieldIsDenotedSet ==
    (simple_schedule.built /\ simple_schedule.ok /\ Len(expression_arg) = 5) =>
        /\ \A i \in 1..5 : \A form \in Forms :
               Text(form) = expression_arg[i] => simple_schedule.parts[i] = Denoted(i, form)
        /\ expression_arg = OneField(1, <<"*", "/", "1", "5">>) =>
               simple_schedule.parts[1] = {0, 15, 30, 45}

\* "1-5 * * * *" parsed: the minutes are 1, 2, 3, 4, 5
C19_Witness ==
    /\ simple_schedule.built /\ simple_schedule.ok
    /\ expression_arg = OneField(1, <<"1", "-", "5">>)
    /\ simple_schedule.parts[1] = {1, 2, 3, 4, 5}
    /\ \E form \in Forms : form.kind = "range" /\ Text(form) = expression_arg[1]

\* The supported syntaxes, on the text of a field.  An integer is a run of
\* digits, with a minus sign before it or not.
IsInteger(word) ==
    /\ word # <<>>
    /\ \A k \in 1..Len(word) : IsDigit(word[k]) \/ (k = 1 /\ word[k] = "-")
    /\ IsDigit(word[Len(word)])

IsStep(word) ==
    /\ Len(word) > 2
    /\ word[1] = "*" /\ word[2] = "/"
    /\ IsInteger(SubSeq(word, 3, Len(word)))

IsRange(word) ==
    \E k \in 2..(Len(word) - 1) :
        /\ word[k] = "-"
        /\ IsInteger(SubSeq(word, 1, k - 1))
        /\ IsInteger(SubSeq(word, k + 1, Len(word)))

\* integers with commas between them
IsList(word) ==
    /\ Contains(word, ",")
    /\ \A a \in 1..Len(word) : \A b \in a..Len(word) :
           (/\ a = 1 \/ word[a - 1] = ","
            /\ b = Len(word) \/ word[b + 1] = ","
            /\ ~Contains(SubSeq(word, a, b), ","))
           => IsInteger(SubSeq(word, a, b))
    /\ word[1] # "," /\ word[Len(word)] # ","
    /\ \A k \in 1..(Len(word) - 1) : ~(word[k] = "," /\ word[k + 1] = ",")

IsField(word) ==
    word = <<"*">> \/ IsStep(word) \/ IsList(word) \/ IsRange(word) \/ IsInteger(word)

IsPresetName(words) ==
    \E name \in {"hourly", "daily", "weekly", "monthly", "yearly", "annually"} :
        words = <<PresetNames[name]>>

MalformedText(words) ==
    /\ ~IsPresetName(words)
    /\ Len(words) # 5 \/ \E i \in 1..Len(words) : ~IsField(words[i])

\* C20: a malformed expression (not five fields, or a field in none of the
\* supported syntaxes) makes the constructor raise: no schedule object
\* exists for it that matches could be called on.
C20_MalformedRaisesAtParse ==
    (simple_schedule.built /\ MalformedText(expression_arg)) =>
        /\ ~simple_schedule.ok
        /\ returned.call = "none"

\* "5/10 * * * *", a step on a number, has made the constructor raise
C20_Witness ==
    /\ simple_schedule.built
    /\ ~simple_schedule.ok
    /\ expression_arg = OneField(1, <<"5", "/", "1", "0">>)
    /\ MalformedText(expression_arg)

\* C21: after a successful parse every field set holds values of the
\* field's domain only (minute 0-59, hour 0-23, day of month 1-31, month
\* 1-12, day of week 0-6): an expression with a value outside the domain is
\* not accepted.  The day of week 7, which stands for Sunday, is left aside
\* here: it is the subject of C18.
C21_FieldsWithinDomain ==
    (simple_schedule.built /\ simple_schedule.ok)
    => \A i \in 1..5 :
           simple_schedule.parts[i] \subseteq (Domain(i) \cup (IF i = 5 THEN {7} ELSE {}))

\* "0 9 * * 1"
MondayAtNine == <<<<"0">>, <<"9">>, Star, Star, <<"1">>>>

\* C22: the datetime get_next_occurrence(after) returns is a whole minute
\* (seconds zero), lies after the minute of `after`, matches, and no minute
\* between the two matches.  For "0 9 * * 1" asked on Tuesday 31 December
\* 2024 it is Monday 6 January 2025, 09:00.
C22_NextIsEarliestMatch ==
    (returned.call = "get_next_occurrence" /\ returned.next # NotFound) =>
        /\ returned.second = 0
        /\ returned.next > dt_arg
        /\ matches(simple_schedule.parts, returned.next)
        /\ \A d \in (dt_arg + 1)..(returned.next - 1) : ~matches(simple_schedule.parts, d)
        /\ (expression_arg = MondayAtNine /\ dt_arg = At(366, 23, 59))
               => returned.next = At(366 + 6, 9, 0)

\* "0 9 * * 1" asked 30 seconds into Tuesday 31 December 2024, 23:59
C22_Witness ==
    /\ returned.call = "get_next_occurrence"
    /\ returned.next # NotFound
    /\ expression_arg = MondayAtNine
    /\ dt_arg = At(366, 23, 59)
    /\ second_arg = 30

\* "30 12 29 2 *"
LeapDay == <<<<"3", "0">>, <<"1", "2">>, <<"2", "9">>, <<"2">>, Star>>

\* the minutes get_next_occurrence(after) may test: 31 * 24 * 60 of them,
\* from the minute after `after`
Candidates == (dt_arg + 1)..(dt_arg + 31 * 24 * 60)

\* C23: get_next_occurrence ends after at most 31*24*60 consecutive minute
\* candidates: it raises exactly when none of them matches, and what it
\* returns is one of them and matches.
C23_BoundedSearch ==
    returned.call = "get_next_occurrence" =>
        /\ (returned.next = NotFound)
               <=> (\A c \in Candidates : ~matches(simple_schedule.parts, c))
        /\ returned.next # NotFound =>
               /\ returned.next \in Candidates
               /\ matches(simple_schedule.parts, returned.next)

\* "30 12 29 2 *" asked on 29 January 2024 at 12:29: the leap day at 12:30
\* is the minute after the last candidate, and the call raises
C23_Witness ==
    /\ returned.call = "get_next_occurrence"
    /\ returned.next = NotFound
    /\ expression_arg = LeapDay
    /\ dt_arg = At(29, 12, 29)

\* ------------------------------------------------------------------------
\* Claims about start() and stop()
\* ------------------------------------------------------------------------
\* stop() has returned True, and no call has been made since
Stopped == caller.op = "stop" /\ caller.pc = "idle" /\ caller.ret

\* the places of a control thread that has not ended
LoopPlaces == {"test", "tick", "run_flow", "register", "wait", "sleep"}

\* C24: start() while a control thread is alive returns False and launches
\* nothing (the thread, its place and the event stay as they are); start()
\* on a stopped daemon clears the event, launches exactly one control thread
\* and returns True; is_running() is true exactly while that thread is alive,
\* and it is false once stop() has returned True.
C24_OneControlLoop ==
    [][/\ caller'.op = "start" =>
              ((StartRejected \/ Start) =>
                  IF loop_pc \in LoopPlaces
                  THEN /\ caller'.ret = FALSE
                       /\ UNCHANGED <<scheduler_thread, loop_pc, should_stop, due, threads>>
                  ELSE /\ caller'.ret = TRUE
                       /\ should_stop' = FALSE
                       /\ scheduler_thread' = scheduler_thread + 1
                       /\ loop_pc' = "test"
                       /\ UNCHANGED threads)
       /\ is_running' = (loop_pc' \in LoopPlaces)
       /\ Stopped' => ~is_running']_vars

\* a second start(), after a stop() that returned True
C24_Witness ==
    /\ caller = Returned("start", TRUE)
    /\ scheduler_thread = 2
    /\ loop_pc = "test"
    /\ ~should_stop

\* C25: stop() on a running daemon sets the event.  With the event set the
\* wait of the loop returns, the loop goes from its wait to the while
\* condition and ends there: no tick is begun while the event is set.
\* stop() returns True exactly when the control thread has ended when the join
\* is over, and False when the daemon was not running or the thread is still
\* alive.  After stop() has returned True the loop is ended: no entry is
\* marked running and no thread is started.
C25_StopEndsTheLoop ==
    [][/\ caller'.op = "stop" =>
              /\ StopSet => (loop_pc \in LoopPlaces /\ should_stop')
              /\ StopRejected => (loop_pc \notin LoopPlaces /\ ~caller'.ret)
              /\ (JoinTimesOut \/ JoinReturns) => (caller'.ret = (loop_pc = "exited"))
       /\ (should_stop /\ loop_pc = "wait") => /\ ENABLED WaitReturns
                                               /\ loop_pc' \in {"wait", "test"}
       /\ (should_stop /\ loop_pc = "test") => loop_pc' \in {"test", "exited"}
       /\ (should_stop /\ should_stop' /\ loop_pc # "tick") => loop_pc' # "tick"
       /\ (Stopped /\ caller' = caller) =>
              /\ loop_pc = "exited" /\ loop_pc' = "exited"
              /\ Len(threads') = Len(threads)
              /\ \A i \in 1..Len(heap) : heap'[i].running => heap[i].running]_vars

\* stop() has returned True on a daemon that had dispatched an execution
C25_Witness ==
    /\ Stopped
    /\ loop_pc = "exited"
    /\ should_stop
    /\ Len(threads) = 1

\* the execution threads that have ended
Ended(t) == threads[t].pc \in {"done", "KeyError", "ValueError"}

\* C26: stop() does not cancel an execution, and the execution ends as it
\* would have without the stop: once stop() has returned True, an execution
\* that was under way when stop() was called and has ended since has left no
\* Running-Flow Record of its own and has set the running flag of its
\* schedule back.
C26_ExecutionsFinishAfterStop ==
    Stopped =>
        \A t \in caller.in_flight :
            Ended(t) =>
                /\ running_flows[threads[t].flow_name] # t
                /\ heap[threads[t].schedule].running => Finalizers(threads[t].schedule) # {}

\* C27: an exception raised during a tick does not end the loop: the
\* handler is entered, the loop sleeps and comes back to its while condition,
\* from where it runs a further tick unless the event is set.  The loop ends
\* only at its while condition and only with the event set.
C27_LoopSurvivesExceptions ==
    [][/\ (loop_pc \in {"tick", "run_flow", "register"}) => loop_pc' # "exited"
       /\ loop_pc = "sleep" => loop_pc' \in {"sleep", "test"}
       /\ (loop_pc = "test" /\ ~should_stop /\ loop_pc' # loop_pc) => loop_pc' = "tick"
       /\ (loop_pc # "exited" /\ loop_pc' = "exited") => (loop_pc = "test" /\ should_stop)]_vars

\* the handler of the loop sleeps after mark_completed() has raised inside
\* run_flow's handler, and the event is not set
C27_Witness ==
    /\ loop_pc = "sleep"
    /\ ~should_stop
    /\ \E i \in 1..Len(heap) : calculate_next_run_raises(heap[i])

\* ---------------------------------------------------------------------
\* Claims about dispatch
\* ---------------------------------------------------------------------

\* C28: the control thread never waits for a flow execution.  At every
\* place of the loop its next step can be taken whatever the executions in
\* progress are doing; run_flow marks the due entry running and starts a
\* thread of its own for it, leaving every other execution as it is; and no
\* step of an execution moves the control thread or changes what is left of
\* the tick.
C28_ControlThreadNeverWaits ==
    /\ [](/\ loop_pc = "test" => ENABLED LoopTest
          /\ loop_pc = "tick" => ENABLED LoopTick
          /\ loop_pc = "run_flow" => ENABLED (RunFlowStart \/ RunFlowRaises)
          /\ loop_pc = "register" => ENABLED RunFlowRegister
          /\ loop_pc = "wait" => ENABLED WaitReturns)
    /\ [][/\ (loop_pc = "run_flow" /\ loop_pc' = "register") =>
                /\ heap'[Head(due)].running
                /\ Len(threads') = Len(threads) + 1
                /\ threads'[Len(threads')].pc = "exec"
                /\ threads'[Len(threads')].schedule = Head(due)
                /\ \A t \in 1..Len(threads) : threads'[t] = threads[t]
          /\ (\E t \in 1..Len(threads) : threads'[t] # threads[t]) =>
                UNCHANGED <<loop_pc, due>>]_vars

\* both entries were due on the tick of one minute, both are running and
\* their executions are in progress at once while the loop waits for its
\* next tick
C28_Witness ==
    /\ loop_pc = "wait"
    /\ now = StartTime + 1
    /\ Len(heap) = 2
    /\ \A i \in 1..Len(heap) : heap[i].running
    /\ \E t, u \in 1..Len(threads) :
          /\ threads[t].flow_name # threads[u].flow_name
          /\ threads[t].pc = "exec"
          /\ threads[u].pc = "exec"

\* ---------------------------------------------------------------------
\* Claims about the generated script
\* ---------------------------------------------------------------------
\* the run is between its mkdir and the exit of its shell
InProgress(r) == runs[r].pc \notin {"start", "exited"}

\* C29: flows that execute at once are independent.  While a run is in
\* progress its working directory exists and every status marker it has
\* recorded is still there with the status it recorded, whatever the other
\* runs do; and none of its gates blocks, because each dependency of a step
\* has recorded status 0 in this run before the step is reached.
C29_FlowsAreIndependent ==
    \A r \in DOMAIN runs :
        InProgress(r) =>
            /\ temp_dir.exists
            /\ \A task_id \in runs[r].recorded : temp_dir.status[task_id] = "0"
            /\ runs[r].pc # "sleep"

\* the ids of the commands that ended with status 0 in the run and whose
\* status was recorded by it
RanWithZero(r) ==
    {task_id \in runs[r].recorded :
        \E k \in 1..Len(runs[r].finished) : runs[r].finished[k] = <<task_id, 0>>}

\* C30: in a run the commands are started one at a time in the order that
\* get_task_execution_order computed, and the command of a task is started
\* only after each task it depends on has run with exit status 0 and has had
\* that status recorded.
C30_StepsInOrderAfterDependencies ==
    \A r \in DOMAIN runs :
        LET started == runs[r].started
            order == get_task_execution_order(
                         runs[r].flow, [visited |-> {}, temp_visited |-> {}, order |-> <<>>,
                                        raised |-> "none", names |-> <<>>]).result.order
        IN  /\ Len(started) <= Len(order)
            /\ \A k \in 1..Len(started) :
                   /\ started[k] = order[k]
                   /\ \A j \in 1..Len(depends_on_of(runs[r].flow, started[k])) :
                          depends_on_of(runs[r].flow, started[k])[j] \in RanWithZero(r)
            /\ Len(runs[r].finished) =
                   IF runs[r].pc = "running" THEN Len(started) - 1 ELSE Len(started)
            /\ \A k \in 1..Len(runs[r].finished) : runs[r].finished[k][1] = started[k]

\* a run of the flow "b after a", declared b first, has started a and then b
\* and has ended with 0, while the other run was executing
C30_Witness ==
    \E r \in DOMAIN runs :
        /\ runs[r].flow[1].id = <<"b">>
        /\ runs[r].started = <<<<"a">>, <<"b">>>>
        /\ runs[r].pc = "exited"
        /\ runs[r].code = 0
        /\ \E q \in DOMAIN runs : q # r /\ runs[q].started # <<>>

\* a command of the run has ended with a status other than 0
Failed(r) == \E k \in 1..Len(runs[r].finished) : runs[r].finished[k][2] # 0

\* C31: fail-fast.  Once a command of a run has exited with a status other
\* than 0, it is the last command the run has started, the shell has ended
\* and its exit status is not 0; and the run reaches "Flow completed
\* successfully" (or exits with 0) only after every task of the order has run
\* and exited with 0.
C31_FailFast ==
    \A r \in DOMAIN runs :
        /\ Failed(r) =>
              /\ runs[r].finished[Len(runs[r].finished)][2] # 0
              /\ \A k \in 1..(Len(runs[r].finished) - 1) : runs[r].finished[k][2] = 0
              /\ Len(runs[r].started) = Len(runs[r].finished)
              /\ runs[r].pc = "exited"
              /\ runs[r].code # 0
        /\ (runs[r].pc = "complete" \/ (runs[r].pc = "exited" /\ runs[r].code = 0)) =>
              /\ Len(runs[r].finished) = Len(runs[r].order)
              /\ \A k \in 1..Len(runs[r].finished) :
                     runs[r].finished[k] = <<runs[r].order[k], 0>>

\* the first command of a flow of two tasks has exited with 1: the shell has
\* ended with 1 and the second command was never started
C31_Witness ==
    \E r \in DOMAIN runs :
        /\ Len(runs[r].order) = 2
        /\ runs[r].finished = <<<<runs[r].order[1], 1>>>>
        /\ runs[r].started = <<runs[r].order[1]>>
        /\ runs[r].pc = "exited"
        /\ runs[r].code = 1

\* no other run has begun: the run is a script on its own
OnItsOwn(r) == \A q \in DOMAIN runs : q # r => runs[q].pc = "start"

\* C32: the status of every command that has run is recorded, whether it is
\* 0 or not.  In a run on its own, each command that has ended has its
\* "[FEATHERFLOW_STATUS]" line printed with its exit status, and its status
\* marker holds that status, or the shell is at the line that writes it.
C32_StatusAlwaysRecorded ==
    \A r \in DOMAIN runs :
        OnItsOwn(r) =>
            \A k \in 1..Len(runs[r].finished) :
                LET task_id == runs[r].finished[k][1]
                    status == runs[r].finished[k][2]
                IN  /\ \E j \in 1..Len(runs[r].status_lines) :
                           runs[r].status_lines[j] = <<task_id, status>>
                    /\ \/ runs[r].pc = "record" /\ k = Len(runs[r].finished)
                       \/ /\ task_id \in runs[r].recorded
                          /\ runs[r].pc # "exited" => temp_dir.status[task_id] = echo_status(status)

\* C33: the working directory is a scoped resource.  In a run on its own the
\* directory exists from before the first command is started until the shell
\* exits, and it does not exist once the shell has exited, whether the run
\* completed, a command failed or the shell was interrupted.
C33_WorkingDirectoryScoped ==
    \A r \in DOMAIN runs :
        OnItsOwn(r) =>
            /\ (runs[r].pc \notin {"start", "exited"}) => temp_dir.exists
            /\ runs[r].pc = "exited" => ~temp_dir.exists

\* C35: in a run of a script on its own the gates never wait.  Whenever the
\* shell is at a gate the dependency has recorded status 0 in this run and
\* the gate is open, the run is never in the sleep of a gate, and the first
\* run ends if no other run is ever started.
C35_GatesNeverWait ==
    /\ [](\A r \in DOMAIN runs :
            OnItsOwn(r) =>
                /\ runs[r].pc = "gate" =>
                      LET dep_id == depends_on_of(runs[r].flow,
                                                  runs[r].order[runs[r].step])[runs[r].dep]
                      IN  dep_id \in RanWithZero(r) /\ GateOpen(dep_id)
                /\ runs[r].pc # "sleep"
                /\ runs[r].polls = 0)
    /\ ([]OnItsOwn(1)) => <>(runs[1].pc = "exited")

\* a run on its own of the flow "b after a", declared b first, has passed the
\* gate of b without waiting and has completed
C35_Witness ==
    \E r \in DOMAIN runs :
        /\ OnItsOwn(r)
        /\ runs[r].flow[1].id = <<"b">>
        /\ runs[r].started = <<<<"a">>, <<"b">>>>
        /\ runs[r].polls = 0
        /\ runs[r].pc = "exited"
        /\ runs[r].code = 0

\* the records of the document whose next_run was before the load
MissedRecords ==
    {i \in 1..Len(schedule_file.schedules) :
        /\ schedule_file.schedules[i].next_run # NoTime
        /\ schedule_file.schedules[i].next_run < now}

\* C34: occurrences missed while no daemon ran are skipped.  When a store is
\* constructed from a document, every loaded entry whose persisted next_run
\* was before the load time is not due at the load: should_run() is false
\* until an occurrence later than the load.
C34_MissedOccurrencesSkipped ==
    [][(store_call'.op = "load" /\ LoadSchedules) =>
          \A k \in 1..Len(schedules') :
              (\E i \in MissedRecords :
                   schedule_file.schedules[i].flow_name = schedules'[k].flow_name)
                  => ~should_run(heap'[schedules'[k].entry])]_vars

\* a task set with unique ids and depends_on lists that name tasks of the
\* set, without a cycle
Orderable(ts) ==
    /\ \A k \in 1..Len(ts) : ts[k].depends_on.is_list
    /\ ~HasDuplicate(ts)
    /\ Resolves(ts)
    /\ ~Cyclic(ts)

\* C36: for every acyclic task set get_execution_order of src/parser.py
\* returns a permutation of the task ids in which every task comes after all
\* of the tasks it depends on.
C36_ParserOrderIsTopological ==
    (call = "get_execution_order" /\ Orderable(tasks))
        => (result.ok /\ IsTopologicalOrder(tasks, result.order))

\* neither task depends on the other, directly or transitively
Independent(ts, u, v) ==
    u # v /\ u \notin Dependencies(ts, v) /\ v \notin Dependencies(ts, u)

\* no task of the flow declares the id as a dependency
NoDependent(ts, id) == \A k \in 1..Len(ts) : id \notin Declared(ts[k])

Lacking(doc, ts) ==
    \/ ~doc.has_name
    \/ doc.tasks_type # "list"
    \/ ts = <<>>
    \/ \E k \in 1..Len(doc.fields) : ~doc.fields[k].has_id \/ ~doc.fields[k].has_script

\* C38: validation, by parse_flow of src/parser.py and by validate_flow of
\* featherflow.parser, rejects a flow that lacks a name, lacks a tasks list
\* or has an empty one, or has a task without an id or without a script.
C38_IncompleteFlowRejected ==
    (call \in {"parse_flow", "validate_flow"} /\ Lacking(flow_def, tasks)) => ~result.ok

\* the named schedules: each has an occurrence in every year
PresetExpressions ==
    {<<PresetNames[name]>> :
        name \in {"hourly", "daily", "weekly", "monthly", "yearly", "annually"}}

\* C39: a named schedule always gets a next run: get_next_occurrence, which
\* the constructor of an entry (add_schedule) and mark_completed call, does
\* not raise for "@hourly", "@daily", "@weekly", "@monthly", "@yearly" or
\* "@annually", whatever the present date is.
C39_PresetsAlwaysGetNextRun ==
    (returned.call = "get_next_occurrence" /\ expression_arg \in PresetExpressions)
        => returned.next # NotFound

\* what the document holds for a flow of what add_schedule was given (the
\* run times of an entry change as it runs, and every save writes them)
RecordsOf(file, flow_name) ==
    {[cron_expression |-> file.schedules[i].cron_expression,
      enabled |-> file.schedules[i].enabled,
      description |-> file.schedules[i].description] :
         i \in {j \in 1..Len(file.schedules) : file.schedules[j].flow_name = flow_name}}

\* C40: a store mutation touches only its own key.  Whatever loads, adds and
\* removes came before, an add_schedule or remove_schedule call for a flow
\* leaves the persisted expression, enabled flag and description of every
\* other flow as they were; after an
\* add_schedule that returned True the document holds a record of the flow,
\* after a remove_schedule that returned True it holds none.  (By induction
\* the document holds exactly the entries added and not removed since.)
C40_MutationsTouchOwnKey ==
    [][\A f \in StoreFlows :
          (/\ store_call'.op \in {"add_schedule", "remove_schedule"}
           /\ \/ \E x \in StoreExpressions : AddScheduleFails(f, x)
              \/ \E x \in StoreExpressions, o \in Options :
                     AddSchedule(f, x, o.enabled, o.description)
              \/ RemoveSchedule(f)
              \/ RemoveScheduleMissing(f))
          => /\ \A g \in StoreFlows \ {f} :
                    RecordsOf(schedule_file', g) = RecordsOf(schedule_file, g)
             /\ (store_call'.op = "add_schedule" /\ store_call'.ret)
                    => RecordsOf(schedule_file', f) # {}
             /\ (store_call'.op = "remove_schedule" /\ store_call'.ret)
                    => RecordsOf(schedule_file', f) = {}]_vars
====
